---- MODULE Spec2Model ----
(***************************************************************************)
(* Model of the oxidice suspend/resume execution engine                    *)
(* (src/src/runtime_engine.rs), its runtime data types                     *)
(* (src/src/types/runtime_value.rs, src/src/types/eval_graph.rs) and the   *)
(* session wrapper DiceRollerWithoutAnimation (src/src/runtime.rs).        *)
(*                                                                         *)
(* Encoding conventions                                                    *)
(*  - A NodeId is the 1-based position of the node in the graph sequence   *)
(*    (the source uses 0-based vector indices).                            *)
(*  - Option<T> is a sequence of length 0 (None) or 1 (Some).              *)
(*  - f64 numbers are modelled by integers; all graphs of the model only   *)
(*    produce integral values.                                             *)
(*  - Result<Option<V>, String> is a record [ctx, k, v, e] with            *)
(*    k \in {"Some", "None", "Err"}; ctx is the ExecutionContext as the    *)
(*    call leaves it (a `?` return keeps every mutation made before it).   *)
(***************************************************************************)
EXTENDS Integers, Sequences, FiniteSets, TLC

(***************************************************************************)
(* Bounds of the model                                                     *)
(***************************************************************************)
MaxRounds == 3
MaxDice == 4
MaxCalls == 4

(***************************************************************************)
(* Generic helpers                                                         *)
(***************************************************************************)
RECURSIVE SumSeq(_)
SumSeq(s) == IF s = <<>> THEN 0 ELSE Head(s) + SumSeq(Tail(s))

RECURSIVE SeqsOver(_, _)
SeqsOver(S, n) ==
  IF n = 0 THEN {<<>>}
  ELSE {Append(s, x) : s \in SeqsOver(S, n - 1), x \in S}

Range(s) == {s[i] : i \in 1..Len(s)}

(***************************************************************************)
(* types/runtime_value.rs                                                  *)
(***************************************************************************)
I32Max == 2147483647
I32Min == -2147483647 - 1

\* `x as i32` for an integral f64: saturating cast
AsI32(x) == IF x > I32Max THEN I32Max ELSE IF x < I32Min THEN I32Min ELSE x

FaceNumber(n) == [k |-> "Number", n |-> n]
FaceFudge == [k |-> "Fudge", n |-> 0]
FaceCoin == [k |-> "Coin", n |-> 0]

DieDetail(result, roll_id) ==
  [result |-> result, roll_id |-> <<roll_id>>, roll_history |-> <<result>>,
   is_kept |-> TRUE, outcome |-> "None", is_rerolled |-> FALSE,
   exploded_times |-> 0]

RECURSIVE KeptSum(_)
KeptSum(details) ==
  IF details = <<>> THEN 0
  ELSE (IF Head(details).is_kept THEN Head(details).result ELSE 0)
       + KeptSum(Tail(details))

renew_total(pool) == [pool EXCEPT !.total = KeptSum(pool.details)]

Number(n) == [t |-> "Number", n |-> n]
List(l) == [t |-> "List", l |-> l]
DicePool(pool) == [t |-> "DicePool", pool |-> pool]
DicePoolType(total, face, details) ==
  [total |-> total, face |-> face, details |-> details]

Waiting == [st |-> "Waiting"]
Computed(v) == [st |-> "Computed", v |-> v]
Dynamic(state) == [st |-> "Dynamic", state |-> state]
DynamicState(pool, limit_times, limit_count, pending_dice) ==
  [pool |-> pool, limit_times |-> limit_times, limit_count |-> limit_count,
   pending_dice |-> pending_dice]

\* A pending slot (usize, Option<i32>, Option<RollId>)
Pending(i) == [idx |-> i, value |-> <<>>, roll_id |-> <<>>]

RuntimeRequest(node_id, face, count) ==
  [node_id |-> node_id, face |-> face, count |-> count]

\* Variant of try_resume_times that goes on after the round cap has reached
\* zero.
try_resume_times_unbounded(state) ==
  IF state.limit_times = <<>> THEN [ok |-> TRUE, state |-> state]
  ELSE [ok |-> TRUE, state |-> [state EXCEPT !.limit_times = <<@[1] - 1>>]]

\* DynamicState::try_resume_times: [ok, state]
try_resume_times(state) ==
  IF state.limit_times = <<>> THEN [ok |-> TRUE, state |-> state]
  ELSE IF state.limit_times[1] > 0
       THEN [ok |-> TRUE,
             state |-> [state EXCEPT !.limit_times = <<@[1] - 1>>]]
       ELSE [ok |-> FALSE, state |-> state]

\* Variant of try_resume_count that still allows a die when the count cap has
\* just reached zero.
try_resume_count_inclusive(state) ==
  IF state.limit_count = <<>> THEN [ok |-> TRUE, state |-> state]
  ELSE IF state.limit_count[1] >= 0
       THEN [ok |-> TRUE,
             state |-> [state EXCEPT !.limit_count = <<@[1] - 1>>]]
       ELSE [ok |-> FALSE, state |-> state]

\* DynamicState::try_resume_count: [ok, state]
try_resume_count(state) ==
  IF state.limit_count = <<>> THEN [ok |-> TRUE, state |-> state]
  ELSE IF state.limit_count[1] > 0
       THEN [ok |-> TRUE,
             state |-> [state EXCEPT !.limit_count = <<@[1] - 1>>]]
       ELSE [ok |-> FALSE, state |-> state]

\* RuntimeValue::except_number: [ok, n]
except_number(v) ==
  CASE v.t = "Number" -> [ok |-> TRUE, n |-> v.n]
    [] v.t = "DicePool" -> [ok |-> TRUE, n |-> v.pool.total]
    [] OTHER -> [ok |-> FALSE, n |-> 0]

(***************************************************************************)
(* types/eval_graph.rs: EvalNode                                           *)
(***************************************************************************)
Node(kind, a, b, elems, mp, limit, v) ==
  [kind |-> kind, a |-> a, b |-> b, elems |-> elems, mp |-> mp,
   limit |-> limit, v |-> v]

Constant(v) == Node("Constant", 0, 0, <<>>, <<>>, <<>>, v)
ListConstruct(elems) == Node("ListConstruct", 0, 0, elems, <<>>, <<>>, 0)
NumAdd(a, b) == Node("NumAdd", a, b, <<>>, <<>>, <<>>, 0)
NumSubtract(a, b) == Node("NumSubtract", a, b, <<>>, <<>>, <<>>, 0)
NumIntDivide(a, b) == Node("NumIntDivide", a, b, <<>>, <<>>, <<>>, 0)
NumMultiply(a, b) == Node("NumMultiply", a, b, <<>>, <<>>, <<>>, 0)
NumDivide(a, b) == Node("NumDivide", a, b, <<>>, <<>>, <<>>, 0)
NumModulo(a, b) == Node("NumModulo", a, b, <<>>, <<>>, <<>>, 0)
\* the broadcast forms: ListAdd(list, number) ... ListModulo(list, number)
\* and the reversed ListSubtractReverse(number, list) ...
\* ListModuloReverse(number, list); a and b are the two fields in order
ListBinary(kind, a, b) == Node(kind, a, b, <<>>, <<>>, <<>>, 0)
ListScalarKinds ==
  {"ListAdd", "ListMultiply", "ListSubtract", "ListDivide", "ListIntDivide",
   "ListModulo"}
ListReverseKinds ==
  {"ListSubtractReverse", "ListDivideReverse", "ListIntDivideReverse",
   "ListModuloReverse"}
DiceStandard(c, s) == Node("DiceStandard", c, s, <<>>, <<>>, <<>>, 0)
DiceFudge(c) == Node("DiceFudge", c, 0, <<>>, <<>>, <<>>, 0)
DiceCoin(c) == Node("DiceCoin", c, 0, <<>>, <<>>, <<>>, 0)
DiceKeepHigh(dp, c) == Node("DiceKeepHigh", dp, c, <<>>, <<>>, <<>>, 0)
DiceKeepLow(dp, c) == Node("DiceKeepLow", dp, c, <<>>, <<>>, <<>>, 0)
DiceDropHigh(dp, c) == Node("DiceDropHigh", dp, c, <<>>, <<>>, <<>>, 0)
DiceDropLow(dp, c) == Node("DiceDropLow", dp, c, <<>>, <<>>, <<>>, 0)
DiceMin(dp, t) == Node("DiceMin", dp, t, <<>>, <<>>, <<>>, 0)
DiceMax(dp, t) == Node("DiceMax", dp, t, <<>>, <<>>, <<>>, 0)
DiceExplode(dp, mp, limit) == Node("DiceExplode", dp, 0, <<>>, mp, limit, 0)
DiceCompoundExplode(dp, mp, limit) ==
  Node("DiceCompoundExplode", dp, 0, <<>>, mp, limit, 0)
DiceReroll(dp, mp, limit) == Node("DiceReroll", dp, 0, <<>>, <<mp>>, limit, 0)

ModParamNode(operator, value) == [operator |-> operator, value |-> value]
LimitNode(limit_times, limit_counts) ==
  [limit_times |-> limit_times, limit_counts |-> limit_counts]

BaseKinds == {"DiceStandard", "DiceFudge", "DiceCoin"}
FilterKinds == {"DiceKeepHigh", "DiceKeepLow", "DiceDropHigh", "DiceDropLow"}
DynamicKinds == {"DiceExplode", "DiceCompoundExplode", "DiceReroll"}

CompareOps ==
  {"Greater", "GreaterEqual", "Less", "LessEqual", "Equal", "NotEqual"}

(***************************************************************************)
(* runtime_engine.rs: ExecutionContext                                     *)
(***************************************************************************)
ExecutionContext(memory, requests, remove_requests) ==
  [memory |-> memory, requests |-> requests,
   remove_requests |-> remove_requests]

\* ExecutionContext::new
new(g) == ExecutionContext([i \in 1..Len(g) |-> Waiting], <<>>, <<>>)

RSome(ctx, v) == [ctx |-> ctx, k |-> "Some", v |-> v, e |-> ""]
RNone(ctx) == [ctx |-> ctx, k |-> "None", v |-> Number(0), e |-> ""]
RErr(ctx, e) == [ctx |-> ctx, k |-> "Err", v |-> Number(0), e |-> e]

\* get_compare_function; |x - number| < f64::EPSILON is equality on integers
\* Variant of get_compare_function whose Equal also accepts the value just
\* below the target.
get_compare_function_near(op, number, x) ==
  CASE op = "Greater" -> x > number
    [] op = "GreaterEqual" -> x >= number
    [] op = "Less" -> x < number
    [] op = "LessEqual" -> x <= number
    [] op = "Equal" -> x = number \/ x = number - 1
    [] op = "NotEqual" -> x # number

get_compare_function(op, number, x) ==
  CASE op = "Greater" -> x > number
    [] op = "GreaterEqual" -> x >= number
    [] op = "Less" -> x < number
    [] op = "LessEqual" -> x <= number
    [] op = "Equal" -> x = number
    [] op = "NotEqual" -> x # number

\* (n1 / n2).floor() on integral operands, n2 # 0
FloorDiv(n1, n2) == IF n2 > 0 THEN n1 \div n2 ELSE (0 - n1) \div (0 - n2)

\* a quotient of two integral f64 that is not integral
Fraction(n1, n2) == [num |-> n1, den |-> n2]

\* n1 / n2 on integral operands, n2 # 0
Quotient(n1, n2) ==
  IF n1 - n2 * FloorDiv(n1, n2) = 0 THEN FloorDiv(n1, n2)
  ELSE Fraction(n1, n2)

Abs(x) == IF x < 0 THEN 0 - x ELSE x

\* n1 % n2 on integral operands, n2 # 0: the remainder has the sign of n1
Remainder(n1, n2) ==
  IF n1 < 0 THEN 0 - (Abs(n1) % Abs(n2)) ELSE n1 % Abs(n2)

RECURSIVE eval_node(_, _, _)

get_number(g, ctx, id) ==
  LET r == eval_node(g, ctx, id)
      x == except_number(r.v)
  IN  IF r.k = "Some"
      THEN IF x.ok THEN [ctx |-> r.ctx, k |-> "Some", v |-> x.n, e |-> ""]
           ELSE [ctx |-> r.ctx, k |-> "Err", v |-> 0,
                 e |-> "Expected a number but got a list"]
      ELSE [ctx |-> r.ctx, k |-> r.k, v |-> 0, e |-> r.e]

get_dice_pool(g, ctx, id) ==
  LET r == eval_node(g, ctx, id)
      none == DicePoolType(0, FaceNumber(0), <<>>)
  IN  IF r.k = "Some"
      THEN IF r.v.t = "DicePool"
           THEN [ctx |-> r.ctx, k |-> "Some", v |-> r.v.pool, e |-> ""]
           ELSE [ctx |-> r.ctx, k |-> "Err", v |-> none,
                 e |-> "Expected a dice pool"]
      ELSE [ctx |-> r.ctx, k |-> r.k, v |-> none, e |-> r.e]

\* get_list: [ctx, k, v, e]; a value that is not a list is an error
get_list(g, ctx, id) ==
  LET r == eval_node(g, ctx, id)
  IN  IF r.k = "Some"
      THEN IF r.v.t = "List"
           THEN [ctx |-> r.ctx, k |-> "Some", v |-> r.v.l, e |-> ""]
           ELSE [ctx |-> r.ctx, k |-> "Err", v |-> <<>>,
                 e |-> IF r.v.t = "Number"
                       THEN "Expected a list but got a number"
                       ELSE "Expected a list but got a dice pool"]
      ELSE [ctx |-> r.ctx, k |-> r.k, v |-> <<>>, e |-> r.e]

ensure_ready(g, ctx, id) ==
  IF ctx.memory[id].st = "Computed"
  THEN [ctx |-> ctx, k |-> "Some", v |-> TRUE, e |-> ""]
  ELSE LET r == eval_node(g, ctx, id)
       IN  IF r.k = "Err"
           THEN [ctx |-> r.ctx, k |-> "Err", v |-> FALSE, e |-> r.e]
           ELSE [ctx |-> r.ctx, k |-> "Some", v |-> (r.k = "Some"), e |-> ""]

\* ensure_ready of an Option<NodeId>: None counts as ready
ensure_ready_opt(g, ctx, oid) ==
  IF oid = <<>> THEN [ctx |-> ctx, k |-> "Some", v |-> TRUE, e |-> ""]
  ELSE ensure_ready(g, ctx, oid[1])

\* EvalNode::ListConstruct: every element is evaluated, in order
RECURSIVE list_construct(_, _, _, _, _, _)
list_construct(g, ctx, elems, i, list, is_waiting) ==
  IF i > Len(elems)
  THEN IF is_waiting THEN RNone(ctx) ELSE RSome(ctx, List(list))
  ELSE LET r == eval_node(g, ctx, elems[i])
           x == except_number(r.v)
       IN  CASE r.k = "Err" -> RErr(r.ctx, r.e)
             [] r.k = "None" -> list_construct(g, r.ctx, elems, i + 1, list, TRUE)
             [] r.k = "Some" /\ is_waiting ->
                  list_construct(g, r.ctx, elems, i + 1, list, TRUE)
             [] r.k = "Some" /\ ~is_waiting ->
                  IF x.ok
                  THEN list_construct(g, r.ctx, elems, i + 1,
                                      Append(list, x.n), FALSE)
                  ELSE RErr(r.ctx, "Expected a number but got a list")

\* Variant of list_scalar_closure in which the reversed forms compute
\* element op number like the forward forms.
list_scalar_closure_forward(kind, x, n) ==
  LET ok(v) == [ok |-> TRUE, n |-> v, e |-> ""]
      err(e) == [ok |-> FALSE, n |-> 0, e |-> e]
  IN  CASE kind = "ListAdd" -> ok(x + n)
        [] kind = "ListMultiply" -> ok(x * n)
        [] kind \in {"ListSubtract", "ListSubtractReverse"} -> ok(x - n)
        [] kind \in {"ListDivide", "ListDivideReverse"} ->
             IF n = 0 THEN err("Division by zero in ListDivide")
             ELSE ok(Quotient(x, n))
        [] kind \in {"ListIntDivide", "ListIntDivideReverse"} ->
             IF n = 0 THEN err("Integer division by zero in ListIntDivide")
             ELSE ok(FloorDiv(x, n))
        [] kind \in {"ListModulo", "ListModuloReverse"} ->
             IF n = 0 THEN err("Modulo by zero in ListModulo")
             ELSE ok(Remainder(x, n))

\* the closures handed to apply_list_scalar_op, by node kind: [ok, n, e]
\* for element x and number n
list_scalar_closure(kind, x, n) ==
  LET ok(v) == [ok |-> TRUE, n |-> v, e |-> ""]
      err(e) == [ok |-> FALSE, n |-> 0, e |-> e]
  IN  CASE kind = "ListAdd" -> ok(x + n)
        [] kind = "ListMultiply" -> ok(x * n)
        [] kind = "ListSubtract" -> ok(x - n)
        [] kind = "ListDivide" ->
             IF n = 0 THEN err("Division by zero in ListDivide")
             ELSE ok(Quotient(x, n))
        [] kind = "ListIntDivide" ->
             IF n = 0 THEN err("Integer division by zero in ListIntDivide")
             ELSE ok(FloorDiv(x, n))
        [] kind = "ListModulo" ->
             IF n = 0 THEN err("Modulo by zero in ListModulo")
             ELSE ok(Remainder(x, n))
        [] kind = "ListSubtractReverse" -> ok(n - x)
        [] kind = "ListDivideReverse" ->
             IF x = 0 THEN err("Division by zero in ListDivideReverse")
             ELSE ok(Quotient(n, x))
        [] kind = "ListIntDivideReverse" ->
             IF x = 0
             THEN err("Integer division by zero in ListIntDivideReverse")
             ELSE ok(FloorDiv(n, x))
        [] kind = "ListModuloReverse" ->
             IF x = 0 THEN err("Modulo by zero in ListModuloReverse")
             ELSE ok(Remainder(n, x))

\* list.iter().map(|&x| op(x, num_val)).collect::<Result<Vec<f64>, _>>():
\* the first error ends the map; [ok, l, e]
RECURSIVE map_collect(_, _, _, _, _)
map_collect(kind, list, num_val, j, acc) ==
  IF j > Len(list) THEN [ok |-> TRUE, l |-> acc, e |-> ""]
  ELSE LET r == list_scalar_closure(kind, list[j], num_val)
       IN  IF r.ok THEN map_collect(kind, list, num_val, j + 1,
                                    Append(acc, r.n))
           ELSE [ok |-> FALSE, l |-> <<>>, e |-> r.e]

\* apply_list_scalar_op
apply_list_scalar_op(g, ctx, list_id, number_id, kind) ==
  LET lr == ensure_ready(g, ctx, list_id)
      nr == get_number(g, lr.ctx, number_id)
      list == get_list(g, nr.ctx, list_id)
      result_list == map_collect(kind, list.v, nr.v, 1, <<>>)
  IN  IF lr.k = "Err" THEN RErr(lr.ctx, lr.e)
      ELSE IF nr.k = "Err" THEN RErr(nr.ctx, nr.e)
      ELSE IF lr.v /\ nr.k = "Some"
      THEN IF list.k = "Err" THEN RErr(list.ctx, list.e)
           ELSE IF result_list.ok
           THEN RSome(list.ctx, List(result_list.l))
           ELSE RErr(list.ctx, result_list.e)
      ELSE RNone(nr.ctx)

\* keep_elements_preserve_order of runtime_engine.rs, on a Vec<f64>: the
\* stable sort by value puts i before j when i's value is strictly better,
\* or equal with i the earlier index; take(count) keeps the first count and
\* sort_by_key(index) restores the original order
keep_elements_of_list(values, raw_count, keep_highest) ==
  LET before(i, j) ==
        IF values[i] = values[j] THEN i < j
        ELSE IF keep_highest THEN values[i] > values[j]
        ELSE values[i] < values[j]
      rank(i) == Cardinality({j \in DOMAIN values : before(j, i)})
      top_k == SelectSeq([j \in DOMAIN values |->
                            [index |-> j, val |-> values[j]]],
                         LAMBDA p : rank(p.index) < raw_count)
  IN  IF raw_count < 0 THEN <<>>
      ELSE IF raw_count >= Len(values) THEN values
      ELSE [j \in DOMAIN top_k |-> top_k[j].val]

\* the ListMax and ListMin arms of eval_node
list_max_min(g, ctx, list_idx, number_idx, keep_highest) ==
  LET lr == ensure_ready(g, ctx, list_idx)
      nr == get_number(g, lr.ctx, number_idx)
      list == get_list(g, nr.ctx, list_idx)
  IN  IF lr.k = "Err" THEN RErr(lr.ctx, lr.e)
      ELSE IF nr.k = "Err" THEN RErr(nr.ctx, nr.e)
      ELSE IF lr.v /\ nr.k = "Some"
      THEN IF list.k = "Err" THEN RErr(list.ctx, list.e)
           ELSE RSome(list.ctx,
                      List(keep_elements_of_list(list.v, nr.v, keep_highest)))
      ELSE RNone(nr.ctx)

\* Variant of num_binary that leaves the right operand alone while the left
\* one is not ready.
num_binary_short_circuit(g, ctx, n) ==
  LET r1 == get_number(g, ctx, n.a)
      r2 == IF r1.k = "Some" THEN get_number(g, r1.ctx, n.b)
            ELSE [r1 EXCEPT !.k = "None"]
  IN  IF r1.k = "Err" THEN RErr(r1.ctx, r1.e)
      ELSE IF r2.k = "Err" THEN RErr(r2.ctx, r2.e)
      ELSE IF r1.k = "Some" /\ r2.k = "Some"
      THEN CASE n.kind = "NumAdd" -> RSome(r2.ctx, Number(r1.v + r2.v))
             [] n.kind = "NumSubtract" -> RSome(r2.ctx, Number(r1.v - r2.v))
             [] n.kind = "NumIntDivide" ->
                  IF r2.v = 0 THEN RErr(r2.ctx, "Integer division by zero")
                  ELSE RSome(r2.ctx, Number(FloorDiv(r1.v, r2.v)))
             [] n.kind = "NumMultiply" -> RSome(r2.ctx, Number(r1.v * r2.v))
             [] n.kind = "NumDivide" ->
                  IF r2.v = 0 THEN RErr(r2.ctx, "Division by zero")
                  ELSE RSome(r2.ctx, Number(Quotient(r1.v, r2.v)))
             [] n.kind = "NumModulo" ->
                  IF r2.v = 0 THEN RErr(r2.ctx, "Modulo by zero")
                  ELSE RSome(r2.ctx, Number(Remainder(r1.v, r2.v)))
      ELSE RNone(r2.ctx)

\* EvalNode::NumAdd / NumSubtract / NumIntDivide
num_binary(g, ctx, n) ==
  LET r1 == get_number(g, ctx, n.a)
      r2 == get_number(g, r1.ctx, n.b)
  IN  IF r1.k = "Err" THEN RErr(r1.ctx, r1.e)
      ELSE IF r2.k = "Err" THEN RErr(r2.ctx, r2.e)
      ELSE IF r1.k = "Some" /\ r2.k = "Some"
      THEN CASE n.kind = "NumAdd" -> RSome(r2.ctx, Number(r1.v + r2.v))
             [] n.kind = "NumSubtract" -> RSome(r2.ctx, Number(r1.v - r2.v))
             [] n.kind = "NumIntDivide" ->
                  IF r2.v = 0 THEN RErr(r2.ctx, "Integer division by zero")
                  ELSE RSome(r2.ctx, Number(FloorDiv(r1.v, r2.v)))
             [] n.kind = "NumMultiply" -> RSome(r2.ctx, Number(r1.v * r2.v))
             [] n.kind = "NumDivide" ->
                  IF r2.v = 0 THEN RErr(r2.ctx, "Division by zero")
                  ELSE RSome(r2.ctx, Number(Quotient(r1.v, r2.v)))
             [] n.kind = "NumModulo" ->
                  IF r2.v = 0 THEN RErr(r2.ctx, "Modulo by zero")
                  ELSE RSome(r2.ctx, Number(Remainder(r1.v, r2.v)))
      ELSE RNone(r2.ctx)

\* Variant of dice_standard that tests count < 0 instead of count <= 0: a
\* pool of zero dice asks for a roll of zero dice.
dice_standard_zero_count(g, ctx, id, n) ==
  LET cr == get_number(g, ctx, n.a)
      sr == get_number(g, cr.ctx, n.b)
      count == AsI32(cr.v)
      sides == AsI32(sr.v)
  IN  IF cr.k = "Err" THEN RErr(cr.ctx, cr.e)
      ELSE IF sr.k = "Err" THEN RErr(sr.ctx, sr.e)
      ELSE IF cr.k = "Some" /\ sr.k = "Some"
      THEN IF sides <= 0
           THEN RSome(sr.ctx, DicePool(DicePoolType(0, FaceNumber(0), <<>>)))
           ELSE IF count < 0
           THEN RSome(sr.ctx,
                      DicePool(DicePoolType(0, FaceNumber(sides), <<>>)))
           ELSE RNone([sr.ctx EXCEPT !.requests =
                  Append(@, RuntimeRequest(id, FaceNumber(sides), count))])
      ELSE RNone(sr.ctx)

\* Variant of dice_standard that pushes its request twice.
dice_standard_requests_twice(g, ctx, id, n) ==
  LET cr == get_number(g, ctx, n.a)
      sr == get_number(g, cr.ctx, n.b)
      count == AsI32(cr.v)
      sides == AsI32(sr.v)
  IN  IF cr.k = "Err" THEN RErr(cr.ctx, cr.e)
      ELSE IF sr.k = "Err" THEN RErr(sr.ctx, sr.e)
      ELSE IF cr.k = "Some" /\ sr.k = "Some"
      THEN IF sides <= 0
           THEN RSome(sr.ctx, DicePool(DicePoolType(0, FaceNumber(0), <<>>)))
           ELSE IF count <= 0
           THEN RSome(sr.ctx,
                      DicePool(DicePoolType(0, FaceNumber(sides), <<>>)))
           ELSE RNone([sr.ctx EXCEPT !.requests =
                  @ \o <<RuntimeRequest(id, FaceNumber(sides), count),
                         RuntimeRequest(id, FaceNumber(sides), count)>>])
      ELSE RNone(sr.ctx)

\* EvalNode::DiceStandard
dice_standard(g, ctx, id, n) ==
  LET cr == get_number(g, ctx, n.a)
      sr == get_number(g, cr.ctx, n.b)
      count == AsI32(cr.v)
      sides == AsI32(sr.v)
  IN  IF cr.k = "Err" THEN RErr(cr.ctx, cr.e)
      ELSE IF sr.k = "Err" THEN RErr(sr.ctx, sr.e)
      ELSE IF cr.k = "Some" /\ sr.k = "Some"
      THEN IF sides <= 0
           THEN RSome(sr.ctx, DicePool(DicePoolType(0, FaceNumber(0), <<>>)))
           ELSE IF count <= 0
           THEN RSome(sr.ctx,
                      DicePool(DicePoolType(0, FaceNumber(sides), <<>>)))
           ELSE RNone([sr.ctx EXCEPT !.requests =
                  Append(@, RuntimeRequest(id, FaceNumber(sides), count))])
      ELSE RNone(sr.ctx)

\* Variant of dice_fudge_coin that requests the dice of a pool of zero.
dice_fudge_coin_zero_count(g, ctx, id, n) ==
  LET cr == get_number(g, ctx, n.a)
      count == AsI32(cr.v)
      face == IF n.kind = "DiceFudge" THEN FaceFudge ELSE FaceCoin
  IN  IF cr.k = "Err" THEN RErr(cr.ctx, cr.e)
      ELSE IF cr.k = "Some"
      THEN IF count < 0
           THEN RSome(cr.ctx, DicePool(DicePoolType(0, face, <<>>)))
           ELSE RNone([cr.ctx EXCEPT !.requests =
                  Append(@, RuntimeRequest(id, face, count))])
      ELSE RNone(cr.ctx)

\* EvalNode::DiceFudge / DiceCoin
dice_fudge_coin(g, ctx, id, n) ==
  LET cr == get_number(g, ctx, n.a)
      count == AsI32(cr.v)
      face == IF n.kind = "DiceFudge" THEN FaceFudge ELSE FaceCoin
  IN  IF cr.k = "Err" THEN RErr(cr.ctx, cr.e)
      ELSE IF cr.k = "Some"
      THEN IF count <= 0
           THEN RSome(cr.ctx, DicePool(DicePoolType(0, face, <<>>)))
           ELSE RNone([cr.ctx EXCEPT !.requests =
                  Append(@, RuntimeRequest(id, face, count))])
      ELSE RNone(cr.ctx)

\* apply_dice_filter: active_indices.sort_by (stable): does i come before j
filter_before(details, high, i, j) ==
  IF high
  THEN details[i].result > details[j].result
       \/ (details[i].result = details[j].result /\ i < j)
  ELSE details[i].result < details[j].result
       \/ (details[i].result = details[j].result /\ i < j)

RECURSIVE sort_indices(_, _, _)
sort_indices(S, details, high) ==
  IF S = {} THEN <<>>
  ELSE LET m == CHOOSE i \in S :
                  \A j \in S \ {i} : filter_before(details, high, i, j)
       IN  <<m>> \o sort_indices(S \ {m}, details, high)

\* clears is_kept of the listed dice, in order, and collects their roll ids
RECURSIVE drop_dice(_, _, _)
drop_dice(details, drop, removed) ==
  IF drop = <<>> THEN [details |-> details, removed |-> removed]
  ELSE drop_dice([details EXCEPT ![Head(drop)].is_kept = FALSE], Tail(drop),
                 removed \o details[Head(drop)].roll_id)

\* Variant of apply_dice_filter that filters as soon as the pool is ready,
\* with a count of 0 while the count is not.
apply_dice_filter_eager(g, ctx, n, op) ==
  LET pr == ensure_ready(g, ctx, n.a)
      cr == get_number(g, pr.ctx, n.b)
      dp == get_dice_pool(g, cr.ctx, n.a)
      raw_count == IF cr.k = "Some" THEN AsI32(cr.v) ELSE 0
      count == IF raw_count < 0 THEN 0 ELSE raw_count
      high == op \in {"KeepHigh", "DropHigh"}
      active == {i \in 1..Len(dp.v.details) : dp.v.details[i].is_kept}
      active_indices == sort_indices(active, dp.v.details, high)
      len == Len(active_indices)
      to_drop ==
        IF op \in {"KeepHigh", "KeepLow"}
        THEN IF count < len THEN SubSeq(active_indices, count + 1, len)
             ELSE <<>>
        ELSE IF count >= len THEN active_indices
             ELSE SubSeq(active_indices, 1, count)
      d == drop_dice(dp.v.details, to_drop, <<>>)
      dice_pool == renew_total([dp.v EXCEPT !.details = d.details])
  IN  IF pr.k = "Err" THEN RErr(pr.ctx, pr.e)
      ELSE IF cr.k = "Err" THEN RErr(cr.ctx, cr.e)
      ELSE IF pr.v
      THEN IF dp.k = "Err" THEN RErr(dp.ctx, dp.e)
           ELSE IF active = {} THEN RSome(dp.ctx, DicePool(dp.v))
           ELSE RSome([dp.ctx EXCEPT !.remove_requests = @ \o d.removed],
                      DicePool(dice_pool))
      ELSE RNone(cr.ctx)

\* Variant of apply_dice_filter that ranks every die of the pool, the
\* dropped ones included.
apply_dice_filter_all_dice(g, ctx, n, op) ==
  LET pr == ensure_ready(g, ctx, n.a)
      cr == get_number(g, pr.ctx, n.b)
      dp == get_dice_pool(g, cr.ctx, n.a)
      raw_count == AsI32(cr.v)
      count == IF raw_count < 0 THEN 0 ELSE raw_count
      high == op \in {"KeepHigh", "DropHigh"}
      active == 1..Len(dp.v.details)
      active_indices == sort_indices(active, dp.v.details, high)
      len == Len(active_indices)
      to_drop ==
        IF op \in {"KeepHigh", "KeepLow"}
        THEN IF count < len THEN SubSeq(active_indices, count + 1, len)
             ELSE <<>>
        ELSE IF count >= len THEN active_indices
             ELSE SubSeq(active_indices, 1, count)
      d == drop_dice(dp.v.details, to_drop, <<>>)
      dice_pool == renew_total([dp.v EXCEPT !.details = d.details])
  IN  IF pr.k = "Err" THEN RErr(pr.ctx, pr.e)
      ELSE IF cr.k = "Err" THEN RErr(cr.ctx, cr.e)
      ELSE IF pr.v /\ cr.k = "Some"
      THEN IF dp.k = "Err" THEN RErr(dp.ctx, dp.e)
           ELSE IF active = {} THEN RSome(dp.ctx, DicePool(dp.v))
           ELSE RSome([dp.ctx EXCEPT !.remove_requests = @ \o d.removed],
                      DicePool(dice_pool))
      ELSE RNone(cr.ctx)

\* apply_dice_filter
apply_dice_filter(g, ctx, n, op) ==
  LET pr == ensure_ready(g, ctx, n.a)
      cr == get_number(g, pr.ctx, n.b)
      dp == get_dice_pool(g, cr.ctx, n.a)
      raw_count == AsI32(cr.v)
      count == IF raw_count < 0 THEN 0 ELSE raw_count
      high == op \in {"KeepHigh", "DropHigh"}
      active == {i \in 1..Len(dp.v.details) : dp.v.details[i].is_kept}
      active_indices == sort_indices(active, dp.v.details, high)
      len == Len(active_indices)
      to_drop ==
        IF op \in {"KeepHigh", "KeepLow"}
        THEN IF count < len THEN SubSeq(active_indices, count + 1, len)
             ELSE <<>>
        ELSE IF count >= len THEN active_indices
             ELSE SubSeq(active_indices, 1, count)
      d == drop_dice(dp.v.details, to_drop, <<>>)
      dice_pool == renew_total([dp.v EXCEPT !.details = d.details])
  IN  IF pr.k = "Err" THEN RErr(pr.ctx, pr.e)
      ELSE IF cr.k = "Err" THEN RErr(cr.ctx, cr.e)
      ELSE IF pr.v /\ cr.k = "Some"
      THEN IF dp.k = "Err" THEN RErr(dp.ctx, dp.e)
           ELSE IF active = {} THEN RSome(dp.ctx, DicePool(dp.v))
           ELSE RSome([dp.ctx EXCEPT !.remove_requests = @ \o d.removed],
                      DicePool(dice_pool))
      ELSE RNone(cr.ctx)

\* Variant of apply_dice_min_max that never renews the total.
apply_dice_min_max_stale(g, ctx, n, is_max) ==
  LET pr == ensure_ready(g, ctx, n.a)
      tr == get_number(g, pr.ctx, n.b)
      dp == get_dice_pool(g, tr.ctx, n.a)
      target_val == AsI32(tr.v)
      clamp(d) ==
        IF d.is_kept /\ is_max /\ d.result > target_val
        THEN [d EXCEPT !.result = target_val]
        ELSE IF d.is_kept /\ ~is_max /\ d.result < target_val
        THEN [d EXCEPT !.result = target_val]
        ELSE d
      details == [i \in 1..Len(dp.v.details) |-> clamp(dp.v.details[i])]
  IN  IF pr.k = "Err" THEN RErr(pr.ctx, pr.e)
      ELSE IF tr.k = "Err" THEN RErr(tr.ctx, tr.e)
      ELSE IF pr.v /\ tr.k = "Some"
      THEN IF dp.k = "Err" THEN RErr(dp.ctx, dp.e)
           ELSE RSome(dp.ctx, DicePool([dp.v EXCEPT !.details = details]))
      ELSE RNone(tr.ctx)

\* apply_dice_min_max: kept results above (is_max) or below (~is_max) the
\* target are replaced by the target; the total is renewed when one changed
apply_dice_min_max(g, ctx, n, is_max) ==
  LET pr == ensure_ready(g, ctx, n.a)
      tr == get_number(g, pr.ctx, n.b)
      dp == get_dice_pool(g, tr.ctx, n.a)
      target_val == AsI32(tr.v)
      clamp(d) ==
        IF d.is_kept /\ is_max /\ d.result > target_val
        THEN [d EXCEPT !.result = target_val]
        ELSE IF d.is_kept /\ ~is_max /\ d.result < target_val
        THEN [d EXCEPT !.result = target_val]
        ELSE d
      details == [i \in 1..Len(dp.v.details) |-> clamp(dp.v.details[i])]
      changed == details # dp.v.details
      dice_pool == [dp.v EXCEPT !.details = details]
  IN  IF pr.k = "Err" THEN RErr(pr.ctx, pr.e)
      ELSE IF tr.k = "Err" THEN RErr(tr.ctx, tr.e)
      ELSE IF pr.v /\ tr.k = "Some"
      THEN IF dp.k = "Err" THEN RErr(dp.ctx, dp.e)
           ELSE RSome(dp.ctx,
                      DicePool(IF changed THEN renew_total(dice_pool)
                               ELSE dice_pool))
      ELSE RNone(tr.ctx)

(***************************************************************************)
(* The merge closures handed to process_dynamic_op (eval_node, DiceExplode,*)
(* DiceCompoundExplode, DiceReroll).  Result: [state, ok, new_rolls,       *)
(* remove]; a missing value returns the error with the state as mutated so *)
(* far.  new_rolls holds <<detail index, value>> pairs.                    *)
(***************************************************************************)
\* Variants of the merge closures, one flaw each:
\*   "ExplodeDrops"     explode takes the exploded die out of the kept dice
\*   "CompoundReplaces" compound stores the rolled value instead of adding it
\*   "RerollKeeps"      reroll leaves the replaced die among the kept dice
RECURSIVE merge_variant(_, _, _, _, _, _)
merge_variant(kind, state, j, new_rolls, remove, flaw) ==
  IF j > Len(state.pending_dice)
  THEN [state |-> state, ok |-> TRUE, new_rolls |-> new_rolls,
        remove |-> remove]
  ELSE
    LET p == state.pending_dice[j]
        idx == p.idx
        marked ==
          IF kind = "DiceReroll"
          THEN [state EXCEPT !.pool.details[idx].is_rerolled = TRUE,
                             !.pool.details[idx].is_kept =
                                 (flaw = "RerollKeeps")]
          ELSE [state EXCEPT !.pool.details[idx].exploded_times = @ + 1,
                             !.pool.details[idx].is_kept =
                                 IF kind = "DiceExplode"
                                    /\ flaw = "ExplodeDrops"
                                 THEN FALSE ELSE @]
        rem == IF kind = "DiceReroll"
               THEN remove \o state.pool.details[idx].roll_id
               ELSE remove
        new_value == p.value[1]
        pushed == [marked EXCEPT !.pool.details =
                     Append(@, DieDetail(new_value, p.roll_id[1]))]
        compounded ==
          [marked EXCEPT !.pool.details[idx].result =
                             IF flaw = "CompoundReplaces" THEN new_value
                             ELSE @ + new_value,
                         !.pool.details[idx].roll_history =
                             Append(@, new_value),
                         !.pool.details[idx].roll_id = Append(@, p.roll_id[1])]
    IN  IF p.value = <<>> \/ p.roll_id = <<>>
        THEN [state |-> marked, ok |-> FALSE, new_rolls |-> <<>>,
              remove |-> <<>>]
        ELSE IF kind = "DiceCompoundExplode"
        THEN merge_variant(kind, compounded, j + 1,
                           Append(new_rolls, <<idx, new_value>>), rem, flaw)
        ELSE merge_variant(kind, pushed, j + 1,
                           Append(new_rolls,
                                  <<Len(pushed.pool.details), new_value>>),
                           rem, flaw)

merge_fn_explode_drops(kind, state, j, new_rolls, remove) ==
  merge_variant(kind, state, j, new_rolls, remove, "ExplodeDrops")

merge_fn_compound_replaces(kind, state, j, new_rolls, remove) ==
  merge_variant(kind, state, j, new_rolls, remove, "CompoundReplaces")

merge_fn_reroll_keeps(kind, state, j, new_rolls, remove) ==
  merge_variant(kind, state, j, new_rolls, remove, "RerollKeeps")

RECURSIVE merge_fn(_, _, _, _, _)
merge_fn(kind, state, j, new_rolls, remove) ==
  IF j > Len(state.pending_dice)
  THEN [state |-> state, ok |-> TRUE, new_rolls |-> new_rolls,
        remove |-> remove]
  ELSE
    LET p == state.pending_dice[j]
        idx == p.idx
        marked ==
          IF kind = "DiceReroll"
          THEN [state EXCEPT !.pool.details[idx].is_rerolled = TRUE,
                             !.pool.details[idx].is_kept = FALSE]
          ELSE [state EXCEPT !.pool.details[idx].exploded_times = @ + 1]
        rem == IF kind = "DiceReroll"
               THEN remove \o state.pool.details[idx].roll_id
               ELSE remove
        new_value == p.value[1]
        pushed == [marked EXCEPT !.pool.details =
                     Append(@, DieDetail(new_value, p.roll_id[1]))]
        compounded ==
          [marked EXCEPT !.pool.details[idx].result = @ + new_value,
                         !.pool.details[idx].roll_history =
                             Append(@, new_value),
                         !.pool.details[idx].roll_id = Append(@, p.roll_id[1])]
    IN  IF p.value = <<>> \/ p.roll_id = <<>>
        THEN [state |-> marked, ok |-> FALSE, new_rolls |-> <<>>,
              remove |-> <<>>]
        ELSE IF kind = "DiceCompoundExplode"
        THEN merge_fn(kind, compounded, j + 1,
                      Append(new_rolls, <<idx, new_value>>), rem)
        ELSE merge_fn(kind, pushed, j + 1,
                      Append(new_rolls,
                             <<Len(pushed.pool.details), new_value>>), rem)

\* Variant of scan that stops at the first die it selects.
RECURSIVE scan_first_match(_, _, _, _, _, _)
scan_first_match(state, new_dice, j, operator, target_value, new_rolls) ==
  IF j > Len(new_dice) \/ new_rolls # <<>>
  THEN [state |-> state, new_rolls |-> new_rolls]
  ELSE IF get_compare_function(operator, target_value, new_dice[j][2])
  THEN LET t == try_resume_count(state)
       IN  scan_first_match(t.state, new_dice, j + 1, operator, target_value,
                            IF t.ok THEN Append(new_rolls, new_dice[j][1])
                            ELSE new_rolls)
  ELSE scan_first_match(state, new_dice, j + 1, operator, target_value,
                        new_rolls)

\* process_dynamic_op, scan phase: the filter_map over new_dice, in order:
\* compare_func(result) && state.try_resume_count()
RECURSIVE scan(_, _, _, _, _, _)
scan(state, new_dice, j, operator, target_value, new_rolls) ==
  IF j > Len(new_dice) THEN [state |-> state, new_rolls |-> new_rolls]
  ELSE IF get_compare_function(operator, target_value, new_dice[j][2])
  THEN LET t == try_resume_count(state)
       IN  scan(t.state, new_dice, j + 1, operator, target_value,
                IF t.ok THEN Append(new_rolls, new_dice[j][1]) ELSE new_rolls)
  ELSE scan(state, new_dice, j + 1, operator, target_value, new_rolls)

\* the kept dice of a pool as <<index, result>> pairs, in index order
RECURSIVE kept_dice(_, _)
kept_dice(details, i) ==
  IF i > Len(details) THEN <<>>
  ELSE (IF details[i].is_kept THEN <<(<<i, details[i].result>>)>> ELSE <<>>)
       \o kept_dice(details, i + 1)

\* value of an operand that is known to be Computed: get_number(id).unwrap()
computed_number(ctx, id) == except_number(ctx.memory[id].v).n

\* Option<NodeId> limit operand -> Option<i32>
limit_value(ctx, oid) ==
  IF oid = <<>> THEN <<>> ELSE <<AsI32(computed_number(ctx, oid[1]))>>

\* process_dynamic_op, phases 2-4, on a slot that is Dynamic
dynamic_step(ctx, id, n, is_init) ==
  LET state0 == ctx.memory[id].state
      operator == IF n.mp # <<>> THEN n.mp[1].operator ELSE "Equal"
      target_value ==
        IF n.mp # <<>> THEN computed_number(ctx, n.mp[1].value)
        ELSE IF state0.pool.face.k = "Number" THEN state0.pool.face.n
        ELSE 1
      m == IF is_init
           THEN [state |-> state0, ok |-> TRUE,
                 new_rolls |-> kept_dice(state0.pool.details, 1),
                 remove |-> <<>>]
           ELSE merge_fn(n.kind, state0, 1, <<>>, <<>>)
      cleared == [m.state EXCEPT !.pending_dice = <<>>]
      t == try_resume_times(cleared)
      s == IF t.ok
           THEN scan(t.state, m.new_rolls, 1, operator, target_value, <<>>)
           ELSE [state |-> t.state, new_rolls |-> <<>>]
      send == s.new_rolls # <<>>
      pending == [j \in 1..Len(s.new_rolls) |-> Pending(s.new_rolls[j])]
      waiting_state == [s.state EXCEPT !.pending_dice = pending]
      final_pool == renew_total(s.state.pool)
      ctx1 == [ctx EXCEPT !.remove_requests = @ \o m.remove]
  IN  IF ~m.ok
      THEN RErr([ctx EXCEPT !.memory[id] = Dynamic(m.state)],
                "Some value is missing")
      ELSE IF send
      THEN RNone([ctx1 EXCEPT
                    !.memory[id] = Dynamic(waiting_state),
                    !.requests = Append(@,
                       RuntimeRequest(id, s.state.pool.face,
                                      Len(s.new_rolls)))])
      ELSE RSome([ctx1 EXCEPT !.memory[id] = Computed(DicePool(final_pool))],
                 DicePool(final_pool))

\* process_dynamic_op
process_dynamic_op(g, ctx, id, n) ==
  LET limit_counts == IF n.limit = <<>> THEN <<>> ELSE n.limit[1].limit_counts
      limit_times == IF n.limit = <<>> THEN <<>> ELSE n.limit[1].limit_times
      mod_value == IF n.mp = <<>> THEN <<>> ELSE <<n.mp[1].value>>
      r1 == ensure_ready(g, ctx, n.a)
      r2 == ensure_ready_opt(g, r1.ctx, limit_counts)
      r3 == ensure_ready_opt(g, r2.ctx, limit_times)
      r4 == ensure_ready_opt(g, r3.ctx, mod_value)
      dp == get_dice_pool(g, r4.ctx, n.a)
      init == DynamicState(dp.v, limit_value(dp.ctx, limit_times),
                           limit_value(dp.ctx, limit_counts), <<>>)
  IN  IF ctx.memory[id].st = "Dynamic" THEN dynamic_step(ctx, id, n, FALSE)
      ELSE IF r1.k = "Err" THEN RErr(r1.ctx, r1.e)
      ELSE IF r2.k = "Err" THEN RErr(r2.ctx, r2.e)
      ELSE IF r3.k = "Err" THEN RErr(r3.ctx, r3.e)
      ELSE IF r4.k = "Err" THEN RErr(r4.ctx, r4.e)
      ELSE IF r1.v /\ r2.v /\ r3.v /\ r4.v
      THEN IF dp.k = "Err" THEN RErr(dp.ctx, dp.e)
           ELSE dynamic_step([dp.ctx EXCEPT !.memory[id] = Dynamic(init)],
                             id, n, TRUE)
      ELSE RNone(r4.ctx)

\* f64::INFINITY, above every finite value the model computes
Infinity == 1000000000

\* nums.iter().fold(init, |a, &b| a.max(b)) and the same with min
RECURSIVE fold_f64(_, _, _)
fold_f64(nums, acc, is_max) ==
  IF nums = <<>> THEN acc
  ELSE fold_f64(Tail(nums),
                IF is_max THEN IF Head(nums) > acc THEN Head(nums) ELSE acc
                ELSE IF Head(nums) < acc THEN Head(nums) ELSE acc,
                is_max)

\* eval_node, the NumMax and NumMin arms
num_max_min(g, ctx, node, is_max) ==
  LET with(list) ==
        IF list.k = "Err" THEN RErr(list.ctx, list.e)
        ELSE IF list.k = "None" THEN RNone(list.ctx)
        ELSE IF list.v = <<>>
        THEN RErr(list.ctx, IF is_max THEN "NumMax called on empty list"
                            ELSE "NumMin called on empty list")
        ELSE RSome(list.ctx,
                   Number(fold_f64(list.v,
                                   IF is_max THEN 0 - Infinity ELSE Infinity,
                                   is_max)))
  IN  with(get_list(g, ctx, node))

\* the match on the node kind in eval_node
dispatch(g, ctx, id) ==
  LET n == g[id]
  IN  CASE n.kind = "Constant" -> RSome(ctx, Number(n.v))
        [] n.kind = "ListConstruct" ->
             list_construct(g, ctx, n.elems, 1, <<>>, FALSE)
        [] n.kind \in {"NumAdd", "NumSubtract", "NumIntDivide", "NumMultiply",
                       "NumDivide", "NumModulo"} ->
             num_binary(g, ctx, n)
        [] n.kind \in ListScalarKinds ->
             apply_list_scalar_op(g, ctx, n.a, n.b, n.kind)
        [] n.kind \in ListReverseKinds ->
             apply_list_scalar_op(g, ctx, n.b, n.a, n.kind)
        [] n.kind \in {"ListMax", "ListMin"} ->
             list_max_min(g, ctx, n.a, n.b, n.kind = "ListMax")
        [] n.kind \in {"NumMax", "NumMin"} ->
             num_max_min(g, ctx, n.a, n.kind = "NumMax")
        [] n.kind = "DiceStandard" -> dice_standard(g, ctx, id, n)
        [] n.kind \in {"DiceFudge", "DiceCoin"} ->
             dice_fudge_coin(g, ctx, id, n)
        [] n.kind \in FilterKinds ->
             apply_dice_filter(g, ctx, n,
               CASE n.kind = "DiceKeepHigh" -> "KeepHigh"
                 [] n.kind = "DiceKeepLow" -> "KeepLow"
                 [] n.kind = "DiceDropHigh" -> "DropHigh"
                 [] n.kind = "DiceDropLow" -> "DropLow")
        [] n.kind = "DiceMin" -> apply_dice_min_max(g, ctx, n, FALSE)
        [] n.kind = "DiceMax" -> apply_dice_min_max(g, ctx, n, TRUE)
        [] n.kind \in DynamicKinds -> process_dynamic_op(g, ctx, id, n)

\* Variant of store_result that hands the value on without memoizing it.
store_result_unmemoized(r, id) == r

\* the final match of eval_node: memoize a Some result
store_result(r, id) ==
  IF r.k = "Some" THEN [r EXCEPT !.ctx.memory[id] = Computed(r.v)] ELSE r

\* ExecutionContext::eval_node
eval_node(g, ctx, id) ==
  IF ctx.memory[id].st = "Computed" THEN RSome(ctx, ctx.memory[id].v)
  ELSE store_result(dispatch(g, ctx, id), id)

\* process_runtime_responses, the Waiting arm: the pool built from a response
\* (a RuntimeResponse is a sequence of <<result, RollId>> pairs)
new_dice_pool(face, dice_result) ==
  renew_total(DicePoolType(0, face,
    [j \in 1..Len(dice_result) |->
       DieDetail(dice_result[j][1], dice_result[j][2])]))

\* process_runtime_responses, the Dynamic arm: fill the pending slots
\* Variant of fill_pending that writes the results in reverse order.
fill_pending_reversed(state, dice_result) ==
  [state EXCEPT !.pending_dice =
     [j \in 1..Len(@) |->
        [@[j] EXCEPT !.value = <<dice_result[Len(dice_result) + 1 - j][1]>>,
                     !.roll_id = <<dice_result[Len(dice_result) + 1 - j][2]>>]]]

fill_pending(state, dice_result) ==
  [state EXCEPT !.pending_dice =
     [j \in 1..Len(@) |-> [@[j] EXCEPT !.value = <<dice_result[j][1]>>,
                                       !.roll_id = <<dice_result[j][2]>>]]]

\* process_runtime_responses, the loop over the responses; [ctx, k, e]
\* Variant of write_responses that stores the new pool before it looks at
\* the slot: a response for an already computed base node is still refused,
\* but only after the pool it carries has replaced the computed one.
RECURSIVE write_responses_late_check(_, _, _, _)
write_responses_late_check(g, ctx, responses, i) ==
  IF i > Len(responses)
  THEN [ctx |-> [ctx EXCEPT !.requests = <<>>, !.remove_requests = <<>>],
        k |-> "Ok", e |-> ""]
  ELSE
    LET idx == ctx.requests[i].node_id
        dice_result == responses[i]
        slot == ctx.memory[idx]
        stored == [ctx EXCEPT !.memory[idx] =
                     Computed(DicePool(
                       new_dice_pool(ctx.requests[i].face, dice_result)))]
    IN  CASE slot.st = "Dynamic" ->
               IF Len(slot.state.pending_dice) # Len(dice_result)
               THEN [ctx |-> ctx, k |-> "Err",
                     e |-> "Mismatched dice result length"]
               ELSE write_responses_late_check(g,
                      [ctx EXCEPT !.memory[idx] =
                         Dynamic(fill_pending(slot.state, dice_result))],
                      responses, i + 1)
          [] slot.st = "Waiting" ->
               IF g[idx].kind \in BaseKinds
               THEN write_responses_late_check(g, stored, responses, i + 1)
               ELSE [ctx |-> ctx, k |-> "Err",
                     e |-> "RuntimeResponse received for non-dice node"]
          [] slot.st = "Computed" ->
               [ctx |-> IF g[idx].kind \in BaseKinds THEN stored ELSE ctx,
                k |-> "Err",
                e |-> "RuntimeResponse received for already computed node"]

RECURSIVE write_responses(_, _, _, _)
write_responses(g, ctx, responses, i) ==
  IF i > Len(responses)
  THEN [ctx |-> [ctx EXCEPT !.requests = <<>>, !.remove_requests = <<>>],
        k |-> "Ok", e |-> ""]
  ELSE
    LET idx == ctx.requests[i].node_id
        dice_result == responses[i]
        slot == ctx.memory[idx]
    IN  CASE slot.st = "Dynamic" ->
               IF Len(slot.state.pending_dice) # Len(dice_result)
               THEN [ctx |-> ctx, k |-> "Err",
                     e |-> "Mismatched dice result length"]
               ELSE write_responses(g,
                      [ctx EXCEPT !.memory[idx] =
                         Dynamic(fill_pending(slot.state, dice_result))],
                      responses, i + 1)
          [] slot.st = "Waiting" ->
               IF g[idx].kind \in BaseKinds
               THEN write_responses(g,
                      [ctx EXCEPT !.memory[idx] =
                         Computed(DicePool(
                           new_dice_pool(ctx.requests[i].face, dice_result)))],
                      responses, i + 1)
               ELSE [ctx |-> ctx, k |-> "Err",
                     e |-> "RuntimeResponse received for non-dice node"]
          [] slot.st = "Computed" ->
               [ctx |-> ctx, k |-> "Err",
                e |-> "RuntimeResponse received for already computed node"]

\* Variant of process_runtime_responses without the final requests.clear():
\* the answered requests stay in the context.
process_runtime_responses_keep(g, ctx, responses) ==
  IF Len(responses) # Len(ctx.requests)
  THEN [ctx |-> ctx, k |-> "Err", e |-> "Mismatched number of RuntimeResponses"]
  ELSE LET p == write_responses(g, ctx, responses, 1)
       IN  [p EXCEPT !.ctx.requests = ctx.requests]

\* Variant of process_runtime_responses without the final
\* remove_requests.clear(): the remove list outlives the batch.
process_runtime_responses_keeps_removed(g, ctx, responses) ==
  IF Len(responses) # Len(ctx.requests)
  THEN [ctx |-> ctx, k |-> "Err", e |-> "Mismatched number of RuntimeResponses"]
  ELSE LET p == write_responses(g, ctx, responses, 1)
       IN  [p EXCEPT !.ctx.remove_requests = ctx.remove_requests]

\* ExecutionContext::process_runtime_responses
process_runtime_responses(g, ctx, responses) ==
  IF Len(responses) # Len(ctx.requests)
  THEN [ctx |-> ctx, k |-> "Err", e |-> "Mismatched number of RuntimeResponses"]
  ELSE write_responses(g, ctx, responses, 1)

(***************************************************************************)
(* runtime.rs: generate_response                                           *)
(***************************************************************************)
\* Variant of face_range that rolls a numbered die from 0 (gen_range(0..=n)).
face_range_from_zero(face) ==
  CASE face.k = "Number" -> 0..face.n
    [] face.k = "Coin" -> 0..1
    [] face.k = "Fudge" -> (-1)..1

\* the range a face is rolled in
face_range(face) ==
  CASE face.k = "Number" -> 1..face.n
    [] face.k = "Coin" -> 0..1
    [] face.k = "Fudge" -> (-1)..1

\* generate_response: every response the generator can produce for a request;
\* roll ids are counter, counter + 1, ...
generate_response(request, counter) ==
  {[j \in 1..request.count |-> <<vals[j], counter + j - 1>>] :
     vals \in SeqsOver(face_range(request.face), request.count)}

\* the map over the requests in roll_without_animation: one generated
\* response per request, the roll-id counter running through
RECURSIVE generate_responses(_, _)
generate_responses(reqs, counter) ==
  IF reqs = <<>> THEN {<<>>}
  ELSE {<<r>> \o rest :
          r \in generate_response(Head(reqs), counter),
          rest \in generate_responses(Tail(reqs), counter + Head(reqs).count)}

\* sum of request counts: requests.iter().map(|r| r.count).sum()
dice_count(reqs) == SumSeq([j \in 1..Len(reqs) |-> reqs[j].count])

(***************************************************************************)
(* render_result.rs: the value the renderer reads for a node.  The display *)
(* tree itself is outside the model; Done carries the root's summary.      *)
(***************************************************************************)
get_value_summary(memory, idx) ==
  IF memory[idx].st = "Computed"
  THEN [t |-> "Computed", v |-> memory[idx].v]
  ELSE [t |-> "NotComputed"]

render_result(g, memory) == get_value_summary(memory, g.root)

(***************************************************************************)
(* runtime.rs: DiceRollerWithoutAnimation                                  *)
(***************************************************************************)
StError(e) == [k |-> "Error", e |-> e]
StDone(v) == [k |-> "Done", v |-> v]
StWaitingForResponses(reqs) == [k |-> "WaitingForResponses", requests |-> reqs]
StWaitingForEvaluation == [k |-> "WaitingForEvaluation"]

\* DiceRollerWithoutAnimation::new, after parse / lower / fold / compile
DiceRollerWithoutAnimation(g, recursion_limit, dice_count_limit) ==
  [context |-> new(g.nodes), recursion_limit |-> recursion_limit,
   dice_count_limit |-> dice_count_limit, state |-> StWaitingForEvaluation]

\* Variant of not_ready_arm without the dice-count test: the requests are
\* handed out whatever is left of the budget, which saturates at 0.
not_ready_arm_no_dice_check(self) ==
  LET count == dice_count(self.context.requests)
      s1 == [self EXCEPT !.recursion_limit = @ - 1]
  IN  IF self.recursion_limit <= 1
      THEN [self EXCEPT !.state = StError("Recursion limit exceeded")]
      ELSE [s1 EXCEPT !.dice_count_limit = IF @ < count THEN 0 ELSE @ - count,
                      !.state = StWaitingForResponses(s1.context.requests)]

\* Variant of not_ready_arm that tests the two budgets but consumes neither.
not_ready_arm_unconsumed(self) ==
  LET count == dice_count(self.context.requests)
  IN  IF self.recursion_limit <= 1
      THEN [self EXCEPT !.state = StError("Recursion limit exceeded")]
      ELSE IF self.dice_count_limit < count
      THEN [self EXCEPT !.state = StError("Dice count limit exceeded")]
      ELSE [self EXCEPT !.state = StWaitingForResponses(self.context.requests)]

\* Variant of not_ready_arm that also charges the round to every modifier
\* that is still resolving.
not_ready_arm_charges_nodes(self) ==
  LET count == dice_count(self.context.requests)
      s1 == [self EXCEPT !.recursion_limit = @ - 1]
      charge(slot) ==
        IF slot.st = "Dynamic" /\ slot.state.limit_times # <<>>
        THEN [slot EXCEPT !.state.limit_times = <<@[1] - 1>>]
        ELSE slot
      charged == [i \in DOMAIN s1.context.memory |->
                    charge(s1.context.memory[i])]
  IN  IF self.recursion_limit <= 1
      THEN [self EXCEPT !.state = StError("Recursion limit exceeded")]
      ELSE IF s1.dice_count_limit < count
      THEN [s1 EXCEPT !.state = StError("Dice count limit exceeded")]
      ELSE [s1 EXCEPT !.dice_count_limit = @ - count,
                      !.context.memory = charged,
                      !.state = StWaitingForResponses(s1.context.requests)]

\* evaluation, the Ok(None) arm: the two session budgets
not_ready_arm(self) ==
  LET count == dice_count(self.context.requests)
      s1 == [self EXCEPT !.recursion_limit = @ - 1]
  IN  IF self.recursion_limit <= 1
      THEN [self EXCEPT !.state = StError("Recursion limit exceeded")]
      ELSE IF s1.dice_count_limit < count
      THEN [s1 EXCEPT !.state = StError("Dice count limit exceeded")]
      ELSE [s1 EXCEPT !.dice_count_limit = @ - count,
                      !.state = StWaitingForResponses(s1.context.requests)]

\* Variant of evaluation that refuses the call only while responses are
\* outstanding: a Done or Error session is evaluated again.
evaluation_when_terminal(g, self) ==
  IF self.state.k = "WaitingForResponses"
  THEN [self |-> self, ret |-> "Err", res |-> "-"]
  ELSE LET arms(r, s1) ==
             [self |->
                CASE r.k = "Some" ->
                       [s1 EXCEPT !.state =
                          StDone(render_result(g, r.ctx.memory))]
                  [] r.k = "None" -> not_ready_arm(s1)
                  [] r.k = "Err" -> [s1 EXCEPT !.state = StError(r.e)],
              ret |-> "Ok", res |-> r.k]
           with(r) == arms(r, [self EXCEPT !.context = r.ctx])
       IN  with(eval_node(g.nodes, self.context, g.root))

\* DiceRollerWithoutAnimation::evaluation; [self, ret, res]: the roller after
\* the call, the call's return (Ok / Err) and what eval_node(root) returned
evaluation(g, self) ==
  IF self.state.k # "WaitingForEvaluation"
  THEN [self |-> self, ret |-> "Err", res |-> "-"]
  ELSE LET arms(r, s1) ==
             [self |->
                CASE r.k = "Some" ->
                       [s1 EXCEPT !.state =
                          StDone(render_result(g, r.ctx.memory))]
                  [] r.k = "None" -> not_ready_arm(s1)
                  [] r.k = "Err" -> [s1 EXCEPT !.state = StError(r.e)],
              ret |-> "Ok", res |-> r.k]
           with(r) == arms(r, [self EXCEPT !.context = r.ctx])
       IN  with(eval_node(g.nodes, self.context, g.root))

\* Variant of set_responses that puts the session in Error when the number
\* of responses is wrong, instead of only refusing the call.
set_responses_fail_fast(g, self, responses) ==
  IF self.state.k = "WaitingForResponses"
  THEN IF Len(responses) # Len(self.state.requests)
       THEN [self |-> [self EXCEPT !.state =
                         StError("Invalid number of responses provided")],
             ret |-> "Err"]
       ELSE LET with(p) ==
                  [self |-> [self EXCEPT
                               !.context = p.ctx,
                               !.state = IF p.k = "Err" THEN StError(p.e)
                                         ELSE StWaitingForEvaluation],
                   ret |-> "Ok"]
            IN  with(process_runtime_responses(g.nodes, self.context,
                                               responses))
  ELSE [self |-> self, ret |-> "Err"]

\* Variant of set_responses that empties the request list before it refuses
\* a batch of the wrong length.
set_responses_clears_requests(g, self, responses) ==
  IF self.state.k = "WaitingForResponses"
  THEN IF Len(responses) # Len(self.state.requests)
       THEN [self |-> [self EXCEPT !.context.requests = <<>>], ret |-> "Err"]
       ELSE LET with(p) ==
                  [self |-> [self EXCEPT
                               !.context = p.ctx,
                               !.state = IF p.k = "Err" THEN StError(p.e)
                                         ELSE StWaitingForEvaluation],
                   ret |-> "Ok"]
            IN  with(process_runtime_responses(g.nodes, self.context,
                                               responses))
  ELSE [self |-> self, ret |-> "Err"]

\* DiceRollerWithoutAnimation::set_responses; [self, ret]
set_responses(g, self, responses) ==
  IF self.state.k = "WaitingForResponses"
  THEN IF Len(responses) # Len(self.state.requests)
       THEN [self |-> self, ret |-> "Err"]
       ELSE LET with(p) ==
                  [self |-> [self EXCEPT
                               !.context = p.ctx,
                               !.state = IF p.k = "Err" THEN StError(p.e)
                                         ELSE StWaitingForEvaluation],
                   ret |-> "Ok"]
            IN  with(process_runtime_responses(g.nodes, self.context,
                                               responses))
  ELSE [self |-> self, ret |-> "Err"]

\* DiceRollerWithoutAnimation::try_get_results
try_get_results(self) ==
  CASE self.state.k = "Error" -> [k |-> "Err", e |-> self.state.e]
    [] self.state.k = "Done" -> [k |-> "Some", v |-> self.state.v]
    [] OTHER -> [k |-> "None"]

(***************************************************************************)
(* Evaluation graphs, as compile_hir_to_eval_graph emits them (children    *)
(* before parents, root last) for the expression named in the comment.    *)
(***************************************************************************)
EvalGraph(nodes) == [nodes |-> nodes, root |-> Len(nodes)]

NoLimit == <<>>
NoParam == <<>>

\* 5
GConst == EvalGraph(<<Constant(5)>>)
\* 2d2
GStandard == EvalGraph(<<Constant(2), Constant(2), DiceStandard(1, 2)>>)
\* 2dF
GFudge == EvalGraph(<<Constant(2), DiceFudge(1)>>)
\* 1d2 + 1dc
GAdd == EvalGraph(<<Constant(1), Constant(2), DiceStandard(1, 2),
                    Constant(1), DiceCoin(4), NumAdd(3, 5)>>)
\* [1d2, 1dc]
GList == EvalGraph(<<Constant(1), Constant(2), DiceStandard(1, 2),
                     Constant(1), DiceCoin(4), ListConstruct(<<3, 5>>)>>)
\* 1 // 1dc
GDivide == EvalGraph(<<Constant(1), Constant(1), DiceCoin(2),
                       NumIntDivide(1, 3)>>)
\* 2d(1d2 - 1): the side count is known at run time only and may be 0
GSides == EvalGraph(<<Constant(2), Constant(1), Constant(2),
                      DiceStandard(2, 3), Constant(1), NumSubtract(4, 5),
                      DiceStandard(1, 6)>>)
\* (1dc)d2: the count is known at run time only and may be 0
GCount == EvalGraph(<<Constant(1), DiceCoin(1), Constant(2),
                      DiceStandard(2, 3)>>)
\* (1dF)dc: a coin pool whose count may be -1, 0 or 1
GCoinCount == EvalGraph(<<Constant(1), DiceFudge(1), DiceCoin(2)>>)
\* 2d2kh1
GKeepHigh == EvalGraph(<<Constant(2), Constant(2), DiceStandard(1, 2),
                         Constant(1), DiceKeepHigh(3, 4)>>)
\* 2d2max1
GMax == EvalGraph(<<Constant(2), Constant(2), DiceStandard(1, 2),
                    Constant(1), DiceMax(3, 4)>>)
\* 2d2min2
GMin == EvalGraph(<<Constant(2), Constant(2), DiceStandard(1, 2),
                    Constant(2), DiceMin(3, 4)>>)
\* 2d2!
GExplode == EvalGraph(<<Constant(2), Constant(2), DiceStandard(1, 2),
                        DiceExplode(3, NoParam, NoLimit)>>)
\* 1d2!! with a round cap of 1 and a count cap of 2
GCompound == EvalGraph(<<Constant(1), Constant(2), DiceStandard(1, 2),
                         Constant(1), Constant(2),
                         DiceCompoundExplode(3, NoParam,
                            <<LimitNode(<<4>>, <<5>>)>>)>>)
\* 2d2r1
GReroll == EvalGraph(<<Constant(2), Constant(2), DiceStandard(1, 2),
                       Constant(1),
                       DiceReroll(3, ModParamNode("Equal", 4), NoLimit)>>)
\* 2d2! lc1: a count cap of 1
GExplodeCount == EvalGraph(<<Constant(2), Constant(2), DiceStandard(1, 2),
                             Constant(1),
                             DiceExplode(3, NoParam,
                                <<LimitNode(<<>>, <<4>>)>>)>>)
\* 2d2r>=1 lt1: every die qualifies, a round cap of 1
GRerollTimes == EvalGraph(<<Constant(2), Constant(2), DiceStandard(1, 2),
                            Constant(1), Constant(1),
                            DiceReroll(3, ModParamNode("GreaterEqual", 4),
                               <<LimitNode(<<5>>, <<>>)>>)>>)
\* 2d2! lt0: a round cap that is zero from the start
GExplodeZero == EvalGraph(<<Constant(2), Constant(2), DiceStandard(1, 2),
                            Constant(0),
                            DiceExplode(3, NoParam,
                               <<LimitNode(<<4>>, <<>>)>>)>>)
\* 1d2!! lc(-1): a count cap that is negative from the start
GCompoundNegative == EvalGraph(<<Constant(1), Constant(2), DiceStandard(1, 2),
                                 Constant(-1),
                                 DiceCompoundExplode(3, NoParam,
                                    <<LimitNode(<<>>, <<4>>)>>)>>)
\* 1d2! lt2 lc2 + 1d2!! lt1 lc2: two dynamic nodes, each with its own caps
GTwoDynamic == EvalGraph(<<Constant(1), Constant(2), DiceStandard(1, 2),
                           Constant(2), Constant(2),
                           DiceExplode(3, NoParam,
                              <<LimitNode(<<4>>, <<5>>)>>),
                           Constant(1), Constant(2), DiceStandard(7, 8),
                           Constant(1), Constant(2),
                           DiceCompoundExplode(9, NoParam,
                              <<LimitNode(<<10>>, <<11>>)>>),
                           NumAdd(6, 12)>>)
\* 1dF!!
GFudgeCompound == EvalGraph(<<Constant(1), DiceFudge(1),
                              DiceCompoundExplode(2, NoParam, NoLimit)>>)
\* 1dc!
GCoinExplode == EvalGraph(<<Constant(1), DiceCoin(1),
                            DiceExplode(2, NoParam, NoLimit)>>)

Graphs == {GConst, GStandard, GFudge, GAdd, GList, GDivide, GSides, GCount,
           GCoinCount, GKeepHigh, GMax, GMin, GExplode, GCompound, GReroll,
           GExplodeCount, GRerollTimes, GExplodeZero, GCompoundNegative,
           GTwoDynamic, GFudgeCompound, GCoinExplode}

(***************************************************************************)
(* The compiler (compiler.rs): HIR -> EvalGraph.  A HIR term is            *)
(* [t, v, kids, param, limit]: its variant, the value of a Constant, its   *)
(* boxed operands in the order of the variant's fields, its                *)
(* Option<ModParam> and its Option<Limit>.  Every compile function takes   *)
(* the nodes pushed so far and returns them with the id of its result.     *)
(***************************************************************************)
Hir(t, v, kids, param, limit) ==
  [t |-> t, v |-> v, kids |-> kids, param |-> param, limit |-> limit]

ModParam(operator, value) == [operator |-> operator, value |-> value]
Limit(limit_times, limit_counts) ==
  [limit_times |-> limit_times, limit_counts |-> limit_counts]

HConstant(v) == Hir("Constant", v, <<>>, <<>>, <<>>)
HAdd(l, r) == Hir("Add", 0, <<l, r>>, <<>>, <<>>)
HSubtract(l, r) == Hir("Subtract", 0, <<l, r>>, <<>>, <<>>)
HIntDivide(l, r) == Hir("IntDivide", 0, <<l, r>>, <<>>, <<>>)
HMultiply(l, r) == Hir("Multiply", 0, <<l, r>>, <<>>, <<>>)
HDivide(l, r) == Hir("Divide", 0, <<l, r>>, <<>>, <<>>)
HModulo(l, r) == Hir("Modulo", 0, <<l, r>>, <<>>, <<>>)
\* ListBinaryType: the variant is named as the EvalNode it compiles to
\* (ListBinaryType::Add is "ListAdd", ::SubtractReverse is
\* "ListSubtractReverse"); l and r are its two fields in order
HListBinary(t, l, r) == Hir(t, 0, <<l, r>>, <<>>, <<>>)
HExplicit(elements) == Hir("Explicit", 0, elements, <<>>, <<>>)
HStandard(count, sides) == Hir("Standard", 0, <<count, sides>>, <<>>, <<>>)
HFudge(count) == Hir("Fudge", 0, <<count>>, <<>>, <<>>)
HCoin(count) == Hir("Coin", 0, <<count>>, <<>>, <<>>)
HKeepHigh(pool, count) == Hir("KeepHigh", 0, <<pool, count>>, <<>>, <<>>)
HFilter(t, pool, count) == Hir(t, 0, <<pool, count>>, <<>>, <<>>)
HMin(pool, target) == Hir("Min", 0, <<pool, target>>, <<>>, <<>>)
HMax(pool, target) == Hir("Max", 0, <<pool, target>>, <<>>, <<>>)
HExplode(pool, param, limit) == Hir("Explode", 0, <<pool>>, param, limit)
HCompoundExplode(pool, param, limit) ==
  Hir("CompoundExplode", 0, <<pool>>, param, limit)
HReroll(pool, param, limit) == Hir("Reroll", 0, <<pool>>, <<param>>, limit)

\* Variant of push that returns the length of the node vector after the
\* push as the id of the pushed node.
push_id_after(nodes, node) ==
  [nodes |-> Append(nodes, node), id |-> Len(nodes) + 2]

\* Compiler::push: the id is the position at which the node is appended
push(nodes, node) == [nodes |-> Append(nodes, node), id |-> Len(nodes) + 1]

RECURSIVE compile_number(_, _)
RECURSIVE compile_dice_pool(_, _)
RECURSIVE compile_list(_, _)

\* Option<Box<NumberType>>.map(compile_number): [nodes, id: Option<NodeId>]
compile_option(nodes, opt) ==
  IF opt = <<>> THEN [nodes |-> nodes, id |-> <<>>]
  ELSE LET r == compile_number(nodes, opt[1])
       IN  [nodes |-> r.nodes, id |-> <<r.id>>]

\* Compiler::compile_mod_param: [nodes, mp]
compile_mod_param(nodes, param) ==
  LET r == compile_number(nodes, param.value)
  IN  [nodes |-> r.nodes, mp |-> ModParamNode(param.operator, r.id)]

\* Compiler::compile_limit: limit_times first, then limit_counts
compile_limit(nodes, limit) ==
  LET t == compile_option(nodes, limit.limit_times)
      c == compile_option(t.nodes, limit.limit_counts)
  IN  [nodes |-> c.nodes, limit |-> LimitNode(t.id, c.id)]

\* the elements of an explicit list, in order: [nodes, ids]
RECURSIVE compile_elements(_, _, _, _)
compile_elements(nodes, elements, j, ids) ==
  IF j > Len(elements) THEN [nodes |-> nodes, ids |-> ids]
  ELSE LET r == compile_number(nodes, elements[j])
       IN  compile_elements(r.nodes, elements, j + 1, Append(ids, r.id))

\* Compiler::compile_list: the Explicit arm, the ListBinary arms and the
\* Max and Min arms of ListFunction
compile_list(nodes, list) ==
  IF list.t = "Explicit"
  THEN LET r == compile_elements(nodes, list.kids, 1, <<>>)
       IN  push(r.nodes, ListConstruct(r.ids))
  ELSE IF list.t \in ListScalarKinds \cup {"ListMax", "ListMin"}
  THEN LET lid == compile_list(nodes, list.kids[1])
           rid == compile_number(lid.nodes, list.kids[2])
       IN  push(rid.nodes, ListBinary(list.t, lid.id, rid.id))
  ELSE LET lid == compile_number(nodes, list.kids[1])
           rid == compile_list(lid.nodes, list.kids[2])
       IN  push(rid.nodes, ListBinary(list.t, lid.id, rid.id))

\* Compiler::compile_dice_pool
compile_dice_pool(nodes, pool) ==
  IF pool.t \in {"Fudge", "Coin"}
  THEN LET c == compile_number(nodes, pool.kids[1])
       IN  push(c.nodes, IF pool.t = "Fudge" THEN DiceFudge(c.id)
                         ELSE DiceCoin(c.id))
  ELSE IF pool.t = "Standard"
  THEN LET c == compile_number(nodes, pool.kids[1])
           s == compile_number(c.nodes, pool.kids[2])
       IN  push(s.nodes, DiceStandard(c.id, s.id))
  ELSE IF pool.t \in {"KeepHigh", "KeepLow", "DropHigh", "DropLow", "Min",
                      "Max"}
  THEN LET source == compile_dice_pool(nodes, pool.kids[1])
           t == compile_number(source.nodes, pool.kids[2])
       IN  push(t.nodes,
                CASE pool.t = "KeepHigh" -> DiceKeepHigh(source.id, t.id)
                  [] pool.t = "KeepLow" -> DiceKeepLow(source.id, t.id)
                  [] pool.t = "DropHigh" -> DiceDropHigh(source.id, t.id)
                  [] pool.t = "DropLow" -> DiceDropLow(source.id, t.id)
                  [] pool.t = "Min" -> DiceMin(source.id, t.id)
                  [] pool.t = "Max" -> DiceMax(source.id, t.id))
  ELSE LET source == compile_dice_pool(nodes, pool.kids[1])
           m == compile_mod_param(source.nodes, pool.param[1])
           p == IF pool.param = <<>>
                THEN [nodes |-> source.nodes, mp |-> <<>>]
                ELSE [nodes |-> m.nodes, mp |-> <<m.mp>>]
           c == compile_limit(p.nodes, pool.limit[1])
           l == IF pool.limit = <<>>
                THEN [nodes |-> p.nodes, limit |-> <<>>]
                ELSE [nodes |-> c.nodes, limit |-> <<c.limit>>]
       IN  push(l.nodes,
                CASE pool.t = "Explode" ->
                       DiceExplode(source.id, p.mp, l.limit)
                  [] pool.t = "CompoundExplode" ->
                       DiceCompoundExplode(source.id, p.mp, l.limit)
                  [] pool.t = "Reroll" ->
                       DiceReroll(source.id, p.mp[1], l.limit))

\* Compiler::compile_number
compile_number(nodes, num) ==
  IF num.t = "Constant" THEN push(nodes, Constant(num.v))
  ELSE IF num.t \in {"Add", "Subtract", "IntDivide", "Multiply", "Divide",
                     "Modulo"}
  THEN LET lid == compile_number(nodes, num.kids[1])
           rid == compile_number(lid.nodes, num.kids[2])
       IN  push(rid.nodes,
                CASE num.t = "Add" -> NumAdd(lid.id, rid.id)
                  [] num.t = "Subtract" -> NumSubtract(lid.id, rid.id)
                  [] num.t = "IntDivide" -> NumIntDivide(lid.id, rid.id)
                  [] num.t = "Multiply" -> NumMultiply(lid.id, rid.id)
                  [] num.t = "Divide" -> NumDivide(lid.id, rid.id)
                  [] num.t = "Modulo" -> NumModulo(lid.id, rid.id))
  ELSE IF num.t \in {"NumMax", "NumMin"}
  THEN LET id == compile_list(nodes, num.kids[1])
       IN  push(id.nodes, Node(num.t, id.id, 0, <<>>, <<>>, <<>>, 0))
  ELSE compile_dice_pool(nodes, num)

\* Compiler::compile and compile_hir_to_eval_graph
compile_hir_to_eval_graph(h) ==
  LET with(r) == [nodes |-> r.nodes, root |-> r.id]
  IN  with(IF h.t \in {"Explicit", "ListMax", "ListMin"}
                      \cup ListScalarKinds \cup ListReverseKinds
           THEN compile_list(<<>>, h)
           ELSE compile_number(<<>>, h))

\* the expressions the sessions run, as the lowering hands them over
Expressions ==
  LET n(v) == HConstant(v)
      d(c, f) == HStandard(n(c), n(f))
      lim(t, c) == <<Limit(t, c)>>
  IN  {n(5),
       d(2, 2),
       HFudge(n(2)),
       HAdd(d(1, 2), HCoin(n(1))),
       HExplicit(<<d(1, 2), HCoin(n(1))>>),
       HIntDivide(n(1), HCoin(n(1))),
       HStandard(n(2), HSubtract(d(1, 2), n(1))),
       HStandard(HCoin(n(1)), n(2)),
       HCoin(HFudge(n(1))),
       HKeepHigh(d(2, 2), n(1)),
       HMax(d(2, 2), n(1)),
       HMin(d(2, 2), n(2)),
       HExplode(d(2, 2), <<>>, <<>>),
       HCompoundExplode(d(1, 2), <<>>, lim(<<n(1)>>, <<n(2)>>)),
       HReroll(d(2, 2), ModParam("Equal", n(1)), <<>>),
       HExplode(d(2, 2), <<>>, lim(<<>>, <<n(1)>>)),
       HReroll(d(2, 2), ModParam("GreaterEqual", n(1)), lim(<<n(1)>>, <<>>)),
       HExplode(d(2, 2), <<>>, lim(<<n(0)>>, <<>>)),
       HCompoundExplode(d(1, 2), <<>>, lim(<<>>, <<n(-1)>>)),
       HAdd(HExplode(d(1, 2), <<>>, lim(<<n(2)>>, <<n(2)>>)),
            HCompoundExplode(d(1, 2), <<>>, lim(<<n(1)>>, <<n(2)>>))),
       HCompoundExplode(HFudge(n(1)), <<>>, <<>>),
       HExplode(HCoin(n(1)), <<>>, <<>>)}

\* expressions with arithmetic whose right operand, broadcast number or list
\* element is known at run time only
ArithmeticExpressions ==
  LET n(v) == HConstant(v)
      coin == HCoin(n(1))
      fudge == HFudge(n(1))
      l(a, b) == HExplicit(<<a, b>>)
  IN  {HDivide(n(2), coin),
       HModulo(n(3), fudge),
       HListBinary("ListDivide", l(n(2), n(4)), coin),
       HListBinary("ListIntDivide", l(n(2), n(4)), fudge),
       HListBinary("ListModulo", l(n(3), n(4)), coin),
       HListBinary("ListDivideReverse", n(2), l(n(1), coin)),
       HListBinary("ListIntDivideReverse", n(2), l(coin, n(1))),
       HListBinary("ListModuloReverse", n(3), l(n(2), coin)),
       HListBinary("ListDivide", HExplicit(<<>>), coin),
       HListBinary("ListAdd", l(n(1), n(2)), coin),
       HListBinary("ListMultiply", l(n(1), n(2)), fudge),
       HListBinary("ListSubtract", l(n(1), n(3)), coin),
       HListBinary("ListSubtractReverse", coin, l(n(1), n(3)))}

\* their graphs
ArithmeticGraphs ==
  {compile_hir_to_eval_graph(h) : h \in ArithmeticExpressions}

(***************************************************************************)
(* State                                                                   *)
(*   graph    the compiled expression (never changes)                      *)
(*   roller   the DiceRollerWithoutAnimation: context (memory, requests,   *)
(*            remove_requests), recursion_limit, dice_count_limit, state   *)
(*   counter  the caller's roll-id counter (roll_without_animation)        *)
(*   budget   the two budgets the session was created with                 *)
(*   drawn    dice handed out so far: counts of the requests of every      *)
(*            cycle that reached WaitingForResponses                       *)
(*   cycles   number of evaluation cycles in which eval_node(root)         *)
(*            returned NotReady                                            *)
(*   last     the last call made: its name, its return (ret), what         *)
(*            eval_node(root) returned in it (res), what try_get_results   *)
(*            returns after it (val), the number of responses passed (arg) *)
(*   calls    number of calls made by the roll loop (DriverSpec) or made   *)
(*            on the engine (EngineSpec)                                   *)
(*   batch    the responses passed to the last set_responses or            *)
(*            process_runtime_responses call                               *)
(*   emitted  every RuntimeRequest pushed onto context.requests so far, in *)
(*            the order pushed                                             *)
(*   hir      the HIR term handed to the compiler                          *)
(***************************************************************************)
VARIABLES graph, roller, counter, budget, drawn, cycles, last, calls, batch,
          emitted, hir

vars ==
  <<graph, roller, counter, budget, drawn, cycles, last, calls, batch,
    emitted, hir>>

\* the requests a call pushed: those after the ones that were there before
NewRequests(before, after) ==
  IF Len(after) >= Len(before)
  THEN SubSeq(after, Len(before) + 1, Len(after))
  ELSE after

NoCall ==
  [op |-> "new", ret |-> "Ok", res |-> "-", val |-> [k |-> "None"], arg |-> 0]
Call(op, ret, res, val, arg) ==
  [op |-> op, ret |-> ret, res |-> res, val |-> val, arg |-> arg]

Init ==
  /\ graph \in Graphs \cup ArithmeticGraphs
  /\ hir \in {h \in Expressions \cup ArithmeticExpressions :
               compile_hir_to_eval_graph(h) = graph}
  /\ \E r \in 0..MaxRounds, d \in 0..MaxDice :
       /\ roller = DiceRollerWithoutAnimation(graph, r, d)
       /\ budget = [rounds |-> r, dice |-> d]
  /\ counter = 0
  /\ drawn = 0
  /\ cycles = 0
  /\ last = NoCall
  /\ calls = 0
  /\ batch = <<>>
  /\ emitted = <<>>

\* the effect of one evaluation() call on the state
DoEvaluation ==
  LET with(r) ==
        /\ roller' = r.self
        /\ last' = Call("evaluation", r.ret, r.res, try_get_results(r.self), 0)
        /\ cycles' = cycles + (IF r.res = "None" THEN 1 ELSE 0)
        /\ drawn' = drawn + (IF r.ret = "Ok"
                                /\ r.self.state.k = "WaitingForResponses"
                             THEN dice_count(r.self.state.requests) ELSE 0)
        /\ emitted' = emitted \o NewRequests(roller.context.requests,
                                              r.self.context.requests)
        /\ UNCHANGED <<graph, counter, budget, batch, hir>>
  IN  with(evaluation(graph, roller))

\* the effect of one set_responses(responses) call on the state
DoSetResponses(responses) ==
  LET with(r) ==
        /\ roller' = r.self
        /\ last' = Call("set_responses", r.ret, "-", try_get_results(r.self),
                     Len(responses))
        /\ counter' = IF r.ret = "Ok"
                      THEN counter + SumSeq([j \in 1..Len(responses) |->
                                               Len(responses[j])])
                      ELSE counter
        /\ batch' = responses
        /\ UNCHANGED <<graph, budget, drawn, cycles, emitted, hir>>
  IN  with(set_responses(graph, roller, responses))

\* responses that do not fit the outstanding requests: one response too few,
\* one too many, a result missing from or added to the first response
Malformed(w) ==
  {Append(w, <<>>)}
  \cup (IF w = <<>> THEN {}
        ELSE {SubSeq(w, 1, Len(w) - 1),
              [w EXCEPT ![1] = Append(@, <<0, counter + 100>>)]}
             \cup (IF w[1] = <<>> THEN {}
                   ELSE {[w EXCEPT ![1] = SubSeq(@, 1, Len(@) - 1)]}))

\* what a caller may hand to set_responses
CallerResponses ==
  IF roller.state.k = "WaitingForResponses"
  THEN LET W == generate_responses(roller.state.requests, counter)
       IN  W \cup UNION {Malformed(w) : w \in W}
  ELSE {<<>>, << <<(<<1, counter>>)>> >>}

(***************************************************************************)
(* Spec: the session driven by an arbitrary caller                         *)
(***************************************************************************)
Evaluation == DoEvaluation /\ UNCHANGED calls

SetResponses ==
  /\ \E responses \in CallerResponses : DoSetResponses(responses)
  /\ UNCHANGED calls

TryGetResults ==
  /\ last' = Call("try_get_results", "Ok", "-", try_get_results(roller), 0)
  /\ UNCHANGED <<graph, roller, counter, budget, drawn, cycles, calls,
               batch, emitted, hir>>

Next == Evaluation \/ SetResponses \/ TryGetResults

Spec == Init /\ [][Next]_vars

(***************************************************************************)
(* DriverSpec: the loop of roll_without_animation; every batch of requests *)
(* is answered by generate_response; calls counts the calls the loop has   *)
(* made.  LiveSpec adds that the loop keeps running until the session is   *)
(* Done or in Error.                                                       *)
(***************************************************************************)
RollEvaluation ==
  /\ try_get_results(roller).k = "None"
  /\ roller.state.k = "WaitingForEvaluation"
  /\ DoEvaluation
  /\ calls' = calls + 1

RollSetResponses ==
  /\ roller.state.k = "WaitingForResponses"
  /\ \E responses \in generate_responses(roller.state.requests, counter) :
       DoSetResponses(responses)
  /\ calls' = calls + 1

DriverNext == RollEvaluation \/ RollSetResponses

DriverSpec == Init /\ [][DriverNext]_vars

\* One more call of the loop.  Under DriverSpec the steps that change calls
\* are exactly the steps of RollEvaluation and RollSetResponses, and one of
\* the two is possible exactly when the session is neither Done nor in Error.
LoopStep ==
  /\ roller.state.k \in {"WaitingForEvaluation", "WaitingForResponses"}
  /\ calls' = calls + 1

LiveSpec == DriverSpec /\ WF_calls(LoopStep)

(***************************************************************************)
(* EngineSpec: eval_node (on any node) and process_runtime_responses       *)
(* called directly on the ExecutionContext, in any order, at most MaxCalls *)
(* times.                                                                  *)
(***************************************************************************)
\* the graphs EngineSpec runs: one per way a slot is written
EngineGraphs ==
  {GConst, GStandard, GAdd, GCount, GKeepHigh, GExplode, GCompound, GReroll}

EngineInit ==
  /\ graph \in EngineGraphs
  /\ hir \in {h \in Expressions : compile_hir_to_eval_graph(h) = graph}
  /\ roller = DiceRollerWithoutAnimation(graph, 0, 0)
  /\ budget = [rounds |-> 0, dice |-> 0]
  /\ counter = 0
  /\ drawn = 0
  /\ cycles = 0
  /\ last = NoCall
  /\ calls = 0
  /\ batch = <<>>
  /\ emitted = <<>>

EngineResponses ==
  LET W == generate_responses(roller.context.requests, counter)
  IN  W \cup UNION {Malformed(w) : w \in W}

EngineEvalNode ==
  /\ calls < MaxCalls
  /\ \E id \in DOMAIN graph.nodes :
       LET with(r) ==
             /\ roller' = [roller EXCEPT !.context = r.ctx]
             /\ last' = Call("eval_node", IF r.k = "Err" THEN "Err" ELSE "Ok",
                             r.k, [k |-> "None"], id)
             /\ emitted' = emitted \o NewRequests(roller.context.requests,
                                                   r.ctx.requests)
       IN  with(eval_node(graph.nodes, roller.context, id))
  /\ calls' = calls + 1
  /\ UNCHANGED <<graph, counter, budget, drawn, cycles, batch, hir>>

EngineProcessResponses ==
  /\ calls < MaxCalls
  /\ \E responses \in EngineResponses :
       LET with(p) ==
             /\ roller' = [roller EXCEPT !.context = p.ctx]
             /\ last' = Call("process_runtime_responses", p.k, "-",
                             [k |-> "None"], Len(responses))
             /\ batch' = responses
             /\ counter' = counter + SumSeq([j \in 1..Len(responses) |->
                                               Len(responses[j])])
       IN  with(process_runtime_responses(graph.nodes, roller.context,
                                          responses))
  /\ calls' = calls + 1
  /\ UNCHANGED <<graph, budget, drawn, cycles, emitted, hir>>

EngineNext == EngineEvalNode \/ EngineProcessResponses

EngineSpec == EngineInit /\ [][EngineNext]_vars

(***************************************************************************)
(* Properties                                                              *)
(***************************************************************************)
memory == roller.context.memory
requests == roller.context.requests
Terminal == roller.state.k \in {"Done", "Error"}

\* a slot keeps its value once Computed, and never returns to Waiting
SlotAdvances(before, after) ==
  /\ before.st = "Computed" => after = before
  /\ before.st = "Dynamic" => after.st \in {"Dynamic", "Computed"}

C2_DiceBudget ==
  [][/\ drawn' <= budget.dice
     /\ (/\ last'.op = "evaluation"
         /\ last'.res = "None"
         /\ dice_count(roller'.context.requests) > roller.dice_count_limit)
        => (roller'.state.k = "Error" /\ drawn' = drawn)]_vars

\* a later cycle (dice were already handed out) exceeded what was left
C2_Witness ==
  /\ roller.state = StError("Dice count limit exceeded")
  /\ drawn > 0

\* C3: driven by the roll loop with generated responses, the session reaches
\* Done or Error, and has then drawn at most the total-dice budget, even
\* when every rolled die satisfies the explode or reroll condition again.
C3_Terminates == (<>Terminal) /\ [](drawn <= budget.dice)

\* an exploding pool was cut off by a budget after two full rounds
C3_Witness ==
  /\ graph = GExplode
  /\ roller.state.k = "Error"
  /\ cycles >= 3

\* C4: the round-budget error is reported only if more than R cycles
\* returned NotReady (a session that needs at most R such cycles is not
\* stopped by the round budget).
C4_RoundBudget ==
  roller.state = StError("Recursion limit exceeded") => cycles > budget.rounds

\* C5: Error and Done are terminal: no call changes the session, advance and
\* submit_responses are refused, try_get_results keeps returning the same.
C5_TerminalStates ==
  [][Terminal =>
       /\ roller' = roller
       /\ last'.op \in {"evaluation", "set_responses"} => last'.ret = "Err"
       /\ last'.val = try_get_results(roller)]_vars

\* an advance was refused in the Error state
C5_Witness ==
  /\ roller.state.k = "Error"
  /\ last.op = "evaluation"
  /\ last.ret = "Err"

\* the caller's protocol errors: responses submitted while the session does
\* not wait for any, or a response count that differs from the request count
ProtocolError(self, n) ==
  \/ self.state.k # "WaitingForResponses"
  \/ n # Len(self.state.requests)

\* C6 as stated: every protocol error moves the session to the Error state.
C6_ProtocolErrorIsFatal ==
  [][(last'.op = "set_responses" /\ ProtocolError(roller, last'.arg))
       => roller'.state.k = "Error"]_vars

\* C6 amended: a submit that is a protocol error is refused with an error
\* return and changes nothing in the session (it can be retried); an accepted
\* submit ends in Error only when the engine rejects the batch because a
\* response's length differs from a dynamic node's pending set.
C6_ProtocolErrorIsRefused ==
  [][last'.op = "set_responses" =>
       IF ProtocolError(roller, last'.arg)
       THEN last'.ret = "Err" /\ roller' = roller
       ELSE /\ last'.ret = "Ok"
            /\ \/ roller'.state = StWaitingForEvaluation
               \/ roller'.state = StError("Mismatched dice result length")]_vars

\* a submit with the wrong number of responses was refused; the session
\* still waits for responses
C6_Witness ==
  /\ last.op = "set_responses"
  /\ last.ret = "Err"
  /\ roller.state.k = "WaitingForResponses"
  /\ last.arg # Len(roller.state.requests)

\* C8 as stated: every accepted submit_responses returns the session to
\* WaitingForEvaluation with the outstanding request list emptied.
C8_AcceptedSubmitResumes ==
  (last.op = "set_responses" /\ last.ret = "Ok")
    => (roller.state = StWaitingForEvaluation /\ requests = <<>>)

\* C8 amended: advance is accepted only in WaitingForEvaluation, where no
\* request is outstanding; an advance that returns NotReady within the
\* budgets moves the session to WaitingForResponses with the engine's
\* requests; submit_responses is accepted only there, and either returns the
\* session to WaitingForEvaluation with the request list emptied or, when
\* the engine rejects the batch, moves it to Error.
C8_Alternation ==
  [][/\ roller.state.k = "WaitingForEvaluation" => requests = <<>>
     /\ (last'.op = "evaluation" /\ last'.ret = "Ok")
          => roller.state.k = "WaitingForEvaluation"
     /\ (/\ last'.op = "evaluation"
         /\ last'.res = "None"
         /\ roller.recursion_limit > 1
         /\ dice_count(roller'.context.requests) <= roller.dice_count_limit)
          => /\ roller'.state =
                  StWaitingForResponses(roller'.context.requests)
             /\ roller'.context.requests # <<>>
     /\ (last'.op = "set_responses" /\ last'.ret = "Ok")
          => /\ roller.state.k = "WaitingForResponses"
             /\ \/ /\ roller'.state = StWaitingForEvaluation
                   /\ roller'.context.requests = <<>>
                \/ roller'.state.k = "Error"]_vars

\* a second round: an accepted submit brought the session back to
\* WaitingForEvaluation after two NotReady evaluations
C8_Witness ==
  /\ roller.state = StWaitingForEvaluation
  /\ last.op = "set_responses"
  /\ last.ret = "Ok"
  /\ cycles >= 2

\* the i32 an operand slot holds for its parent (get_number, then `as i32`)
OperandValue(mem, id) == AsI32(except_number(mem[id].v).n)

\* the operands of base node n are Computed in mem
OperandsComputed(mem, n) ==
  /\ mem[n.a].st = "Computed"
  /\ n.kind = "DiceStandard" => mem[n.b].st = "Computed"

\* the face base node n rolls
FaceOf(mem, n) ==
  CASE n.kind = "DiceStandard" -> FaceNumber(OperandValue(mem, n.b))
    [] n.kind = "DiceFudge" -> FaceFudge
    [] n.kind = "DiceCoin" -> FaceCoin

\* the requests in reqs that name node i
RequestsFor(reqs, i) == SelectSeq(reqs, LAMBDA r : r.node_id = i)

\* a Computed empty pool with total 0
EmptyPool(slot) ==
  /\ slot.st = "Computed"
  /\ slot.v.t = "DicePool"
  /\ slot.v.pool.details = <<>>
  /\ slot.v.pool.total = 0

\* an accepted evaluation in which eval_node(root) did not fail visits base
\* node i for the first time with its operands Computed
BaseVisited(i) ==
  /\ last'.op = "evaluation"
  /\ last'.ret = "Ok"
  /\ last'.res # "Err"
  /\ graph.nodes[i].kind \in BaseKinds
  /\ memory[i].st = "Waiting"
  /\ OperandsComputed(roller'.context.memory, graph.nodes[i])

\* node i pushed exactly one request, for rolling count dice of its face,
\* and its slot stays Waiting
Requested(i) ==
  LET mem == roller'.context.memory
      n == graph.nodes[i]
  IN  /\ mem[i] = Waiting
      /\ RequestsFor(roller'.context.requests, i)
           = <<RuntimeRequest(i, FaceOf(mem, n), OperandValue(mem, n.a))>>
      /\ last'.res = "None"

\* node i became Computed with an empty pool and pushed no request
ComputedEmpty(i) ==
  /\ EmptyPool(roller'.context.memory[i])
  /\ RequestsFor(roller'.context.requests, i) = <<>>

\* C9 as stated: a base pool node with Computed operands and count >= 1
\* pushes one request and stays Waiting; with count <= 0 it becomes Computed
\* with an empty pool of total 0 and pushes no request.
C9_BaseNodeByCount ==
  [][\A i \in DOMAIN graph.nodes :
       BaseVisited(i) =>
         IF OperandValue(roller'.context.memory, graph.nodes[i].a) >= 1
         THEN Requested(i) ELSE ComputedEmpty(i)]_vars

\* a standard pool node rolls only when its sides are positive too
Rolls(mem, n) ==
  /\ OperandValue(mem, n.a) >= 1
  /\ n.kind = "DiceStandard" => OperandValue(mem, n.b) >= 1

\* C9 amended: the node pushes its request and stays Waiting when count >= 1
\* and, for a standard pool, sides >= 1; with count <= 0, or sides <= 0 for
\* a standard pool, it becomes Computed with an empty pool of total 0 and
\* pushes no request (the empty pool's face is Number(0) when sides <= 0).
C9_BaseNodeByCountAndSides ==
  [][\A i \in DOMAIN graph.nodes :
       BaseVisited(i) =>
         IF Rolls(roller'.context.memory, graph.nodes[i])
         THEN Requested(i)
         ELSE /\ ComputedEmpty(i)
              /\ roller'.context.memory[i].v.pool.face =
                   IF /\ graph.nodes[i].kind = "DiceStandard"
                      /\ OperandValue(roller'.context.memory,
                                      graph.nodes[i].b) <= 0
                   THEN FaceNumber(0)
                   ELSE FaceOf(roller'.context.memory, graph.nodes[i])]_vars

\* a standard pool of count >= 1 dice with 0 sides was evaluated: it is
\* Computed with an empty pool, and no request names it
C9_Witness ==
  \E i \in DOMAIN graph.nodes :
    /\ graph.nodes[i].kind = "DiceStandard"
    /\ last.op = "evaluation"
    /\ EmptyPool(memory[i])
    /\ OperandValue(memory, graph.nodes[i].a) >= 1
    /\ OperandValue(memory, graph.nodes[i].b) <= 0
    /\ RequestsFor(requests, i) = <<>>

\* the pool holds exactly c dice, all kept, each with a result in lo..hi
PoolOf(pool, c, lo, hi) ==
  /\ Len(pool.details) = c
  /\ \A j \in DOMAIN pool.details :
       /\ pool.details[j].is_kept
       /\ pool.details[j].result \in lo..hi

\* the computed base pools of the session, with their count and sides
BasePools ==
  {i \in DOMAIN graph.nodes :
     graph.nodes[i].kind \in BaseKinds /\ memory[i].st = "Computed"}
CountOf(i) == OperandValue(memory, graph.nodes[i].a)
SidesOf(i) == OperandValue(memory, graph.nodes[i].b)

\* C10 as stated: with generated responses, a computed pool of c >= 0 dice
\* with s >= 0 sides holds exactly c kept dice with results in 1..s; Fudge
\* pools hold c dice in -1..1 and Coin pools c dice in 0..1.
C10_PoolSizeAndRange ==
  \A i \in BasePools :
    CountOf(i) >= 0 =>
      CASE graph.nodes[i].kind = "DiceStandard" ->
             SidesOf(i) >= 0 =>
               PoolOf(memory[i].v.pool, CountOf(i), 1, SidesOf(i))
        [] graph.nodes[i].kind = "DiceFudge" ->
             PoolOf(memory[i].v.pool, CountOf(i), -1, 1)
        [] graph.nodes[i].kind = "DiceCoin" ->
             PoolOf(memory[i].v.pool, CountOf(i), 0, 1)

\* C10 amended: the standard pool holds exactly c kept dice in 1..s when
\* s >= 1; with s = 0 it holds no dice, whatever c.  Fudge and Coin pools
\* as stated.
C10_PoolSizeAndRangePositiveSides ==
  \A i \in BasePools :
    CountOf(i) >= 0 =>
      CASE graph.nodes[i].kind = "DiceStandard" ->
             /\ SidesOf(i) >= 1 =>
                  PoolOf(memory[i].v.pool, CountOf(i), 1, SidesOf(i))
             /\ SidesOf(i) = 0 => PoolOf(memory[i].v.pool, 0, 1, 0)
        [] graph.nodes[i].kind = "DiceFudge" ->
             PoolOf(memory[i].v.pool, CountOf(i), -1, 1)
        [] graph.nodes[i].kind = "DiceCoin" ->
             PoolOf(memory[i].v.pool, CountOf(i), 0, 1)

\* a standard pool of two dice was rolled by the generator
C10_Witness ==
  \E i \in BasePools :
    /\ graph.nodes[i].kind = "DiceStandard"
    /\ CountOf(i) = 2
    /\ SidesOf(i) = 2
    /\ Len(memory[i].v.pool.details) = 2

\* the slots of memory that hold a Computed dice pool / a Dynamic state
ComputedPools ==
  {i \in DOMAIN memory :
     memory[i].st = "Computed" /\ memory[i].v.t = "DicePool"}
DynamicNodes == {i \in DOMAIN memory : memory[i].st = "Dynamic"}

\* the pool's total is the sum of its kept results
TotalRenewed(pool) == pool.total = KeptSum(pool.details)

\* C11 as stated: every pool in node memory, Computed or inside a Dynamic
\* state, has a total equal to the sum of the results of its kept details.
C11_TotalIsKeptSum ==
  /\ \A i \in ComputedPools : TotalRenewed(memory[i].v.pool)
  /\ \A i \in DynamicNodes : TotalRenewed(memory[i].state.pool)

\* C11 amended: every Computed pool has a total equal to the sum of its kept
\* results; the pool inside a Dynamic state keeps the total of the operand
\* pool it was initialised from, whatever was merged into it since, and is
\* renewed only when the node resolves.
C11_TotalIsKeptSumWhenComputed ==
  /\ \A i \in ComputedPools : TotalRenewed(memory[i].v.pool)
  /\ \A i \in DynamicNodes :
       memory[i].state.pool.total = memory[graph.nodes[i].a].v.pool.total

\* mid-resolution, after a merged round: the Dynamic pool holds more dice
\* than its operand pool, and its total is not the sum of its kept results
C11_Witness ==
  \E i \in DynamicNodes :
    /\ Len(memory[i].state.pool.details)
         > Len(memory[graph.nodes[i].a].v.pool.details)
    /\ ~TotalRenewed(memory[i].state.pool)

\* the pending set of Dynamic node i, and the request the node pushed for it
PendingOf(i) == memory[i].state.pending_dice
RequestOf(i) ==
  RuntimeRequest(i, memory[i].state.pool.face, Len(PendingOf(i)))

\* C12 as stated, its first part: whenever a dynamic modifier node has a
\* non-empty pending set, exactly one request for it is outstanding, sized
\* to the pending set.
C12_PendingHasRequest ==
  \A i \in DynamicNodes :
    PendingOf(i) # <<>> => RequestsFor(requests, i) = <<RequestOf(i)>>

\* no slot / every slot of the pending set holds a rolled value
Unfilled(pd) == \A j \in DOMAIN pd : pd[j].value = <<>> /\ pd[j].roll_id = <<>>
Filled(pd) == \A j \in DOMAIN pd : pd[j].value # <<>> /\ pd[j].roll_id # <<>>

\* the i-th response of the batch does not fit the pending set of the
\* dynamic node the i-th request names
Mismatch(reqs, resps, i) ==
  /\ memory[reqs[i].node_id].st = "Dynamic"
  /\ Len(resps[i]) # Len(PendingOf(reqs[i].node_id))

\* the pending set pd with the results of response written into it, slot by
\* slot
Written(pd, response) ==
  [j \in 1..Len(pd) |-> [idx |-> pd[j].idx, value |-> <<response[j][1]>>,
                         roll_id |-> <<response[j][2]>>]]

\* C12 amended: while the slots of a dynamic node's pending set are empty,
\* exactly one request for the node is outstanding, sized to the pending
\* set; once responses were applied the slots are all filled and the request
\* is gone (or still there, if the batch was rejected further on) until the
\* next evaluation merges them.  An accepted batch writes the j-th (value,
\* roll id) of the i-th response into the j-th pending slot of the node the
\* i-th request names; a response whose length differs from the pending-set
\* size makes the batch an error and is not written.
C12_PendingAndResponses ==
  [][/\ \A i \in DynamicNodes :
          /\ PendingOf(i) # <<>>
          /\ Unfilled(PendingOf(i)) \/ Filled(PendingOf(i))
          /\ Unfilled(PendingOf(i))
               => RequestsFor(requests, i) = <<RequestOf(i)>>
          /\ Filled(PendingOf(i))
               => RequestsFor(requests, i) \in {<<>>, <<RequestOf(i)>>}
     /\ (last'.op = "set_responses" /\ last'.ret = "Ok") =>
          /\ \A i \in DOMAIN requests :
               (/\ memory[requests[i].node_id].st = "Dynamic"
                /\ \A k \in 1..i : ~Mismatch(requests, batch', k))
               => roller'.context.memory[requests[i].node_id] =
                    Dynamic([memory[requests[i].node_id].state EXCEPT
                       !.pending_dice = Written(@, batch'[i])])
          /\ \A i \in DOMAIN requests :
               (/\ Mismatch(requests, batch', i)
                /\ \A k \in 1..(i - 1) : ~Mismatch(requests, batch', k))
               => /\ roller'.state =
                       StError("Mismatched dice result length")
                  /\ roller'.context.memory[requests[i].node_id] =
                       memory[requests[i].node_id]
                  /\ roller'.context.requests = requests]_vars

\* two different results were written into the two slots of a pending set
C12_Witness ==
  /\ last.op = "set_responses"
  /\ last.ret = "Ok"
  /\ \E i \in DynamicNodes :
       /\ Len(PendingOf(i)) = 2
       /\ Filled(PendingOf(i))
       /\ PendingOf(i)[1].value # PendingOf(i)[2].value
       /\ RequestsFor(requests, i) = <<>>


(***************************************************************************)
(* C13  The caps of a dynamic modifier                                     *)
(***************************************************************************)
\* the requests node i has pushed so far
EmittedBy(i) == SelectSeq(emitted, LAMBDA r : r.node_id = i)

\* Option<NodeId> of the two limit operands of dynamic node i
LimitTimesOf(i) ==
  IF graph.nodes[i].limit = <<>> THEN <<>>
  ELSE graph.nodes[i].limit[1].limit_times
LimitCountsOf(i) ==
  IF graph.nodes[i].limit = <<>> THEN <<>>
  ELSE graph.nodes[i].limit[1].limit_counts

\* the cap a limit operand stands for, once the operand is Computed
CapOf(oid) == AsI32(computed_number(roller.context, oid[1]))

Max0(x) == IF x > 0 THEN x ELSE 0

\* C13: a dynamic node with a round cap T pushes at most max(T, 0) requests
\* over its whole resolution, and with a count cap C the counts of the
\* requests it pushes sum to at most max(C, 0); so a node whose cap is zero
\* or negative from the start pushes no request at all.
C13_CapsBoundRequests ==
  \A i \in DOMAIN graph.nodes :
    graph.nodes[i].kind \in DynamicKinds =>
      /\ (LimitTimesOf(i) # <<>> /\ EmittedBy(i) # <<>>) =>
            Len(EmittedBy(i)) <= Max0(CapOf(LimitTimesOf(i)))
      /\ (LimitCountsOf(i) # <<>> /\ EmittedBy(i) # <<>>) =>
            dice_count(EmittedBy(i)) <= Max0(CapOf(LimitCountsOf(i)))

\* a node with a count cap of 1 whose two dice both qualified has resolved
\* after a single request for one die
C13_Witness ==
  /\ graph = GExplodeCount
  /\ memory[3].st = "Computed" /\ memory[5].st = "Computed"
  /\ Len(memory[3].v.pool.details) = 2
  /\ \A j \in 1..2 : memory[3].v.pool.details[j].result = 2
  /\ Len(EmittedBy(5)) = 1
  /\ dice_count(EmittedBy(5)) = 1



(***************************************************************************)
(* C14  A modifier whose own cap is exhausted resolves without an error    *)
(***************************************************************************)
\* the comparator of dynamic node i applied to a die value: the node's
\* parameter, or by default equality with the largest face of the pool
Qualifies(i, pool, x) ==
  IF graph.nodes[i].mp # <<>>
  THEN get_compare_function(graph.nodes[i].mp[1].operator,
         computed_number(roller.context, graph.nodes[i].mp[1].value), x)
  ELSE x = (IF pool.face.k = "Number" THEN pool.face.n ELSE 1)

\* no further request is possible for this Dynamic state
CapExhausted(state) ==
  \/ state.limit_times # <<>> /\ state.limit_times[1] <= 0
  \/ state.limit_count # <<>> /\ state.limit_count[1] <= 0

\* the evaluation step merges the answered pending set of node i
Merges(i) ==
  /\ memory[i].st = "Dynamic"
  /\ Filled(PendingOf(i))
  /\ last'.op = "evaluation" /\ last'.ret = "Ok"

\* the pool of node i after this step, Dynamic or Computed
PoolAfter(i) ==
  IF roller'.context.memory[i].st = "Dynamic"
  THEN roller'.context.memory[i].state.pool
  ELSE roller'.context.memory[i].v.pool

\* every value of the answered pending set of node i is in the pool after
\* the step: as a new kept die (explode, reroll) or added to the result of
\* the die it was rolled for (compound)
MergedIn(i) ==
  LET old == memory[i].state.pool.details
      new_details == PoolAfter(i).details
      pd == PendingOf(i)
  IN  IF graph.nodes[i].kind = "DiceCompoundExplode"
      THEN /\ Len(new_details) = Len(old)
           /\ \A j \in 1..Len(pd) :
                new_details[pd[j].idx].result =
                  old[pd[j].idx].result + pd[j].value[1]
      ELSE /\ Len(new_details) = Len(old) + Len(pd)
           /\ \A j \in 1..Len(pd) :
                /\ new_details[Len(old) + j].result = pd[j].value[1]
                /\ new_details[Len(old) + j].is_kept

\* C14: when an evaluation merges the answered dice of a dynamic node whose
\* round cap or count cap is used up, and one of those dice satisfies the
\* comparator, the node becomes Computed with all merged dice (the last
\* rolled ones included) and a total equal to the sum of its kept results;
\* eval_node does not fail, and a session whose root is that node is Done.
C14_ExhaustedCapResolves ==
  [][\A i \in DOMAIN graph.nodes :
       (/\ Merges(i)
        /\ CapExhausted(memory[i].state)
        /\ \E j \in 1..Len(PendingOf(i)) :
              Qualifies(i, memory[i].state.pool, PendingOf(i)[j].value[1]))
       => /\ roller'.context.memory[i].st = "Computed"
          /\ MergedIn(i)
          /\ TotalRenewed(PoolAfter(i))
          /\ last'.res # "Err"
          /\ graph.root = i => roller'.state.k = "Done"]_vars

\* 2d2! lc1 resolved and Done with a third die that shows 2: the die rolled
\* for the only allowed explosion would have exploded again
C14_Witness ==
  /\ graph = GExplodeCount
  /\ roller.state.k = "Done"
  /\ memory[5].st = "Computed"
  /\ Len(memory[5].v.pool.details) = 3
  /\ memory[5].v.pool.details[3].result = 2
  /\ memory[5].v.pool.total = 6



(***************************************************************************)
(* C15  Modifier caps are per node                                         *)
(***************************************************************************)
\* what is left of a cap: the cap the limit operand stands for less what
\* was used, or nothing when the node has no such cap
Remaining(oid, used) == IF oid = <<>> THEN <<>> ELSE <<CapOf(oid) - used>>

\* C15: while a dynamic node is resolving, what is left of its round cap is
\* its own cap less the number of requests it has pushed itself, and what is
\* left of its count cap is its own cap less the dice it has asked for
\* itself; neither depends on what another dynamic node has used, nor on
\* the rounds and dice taken from the budgets of the session.
C15_CapsArePerNode ==
  \A i \in DynamicNodes :
    /\ memory[i].state.limit_times =
         Remaining(LimitTimesOf(i), Len(EmittedBy(i)))
    /\ memory[i].state.limit_count =
         Remaining(LimitCountsOf(i), dice_count(EmittedBy(i)))

\* both modifiers of 1d2! lt2 lc2 + 1d2!! lt1 lc2 have pushed one request
\* for one die: two rounds and four dice are gone from the session budgets,
\* and each node has lost one round and one die of its own caps
C15_Witness ==
  /\ graph = GTwoDynamic
  /\ roller.state.k = "WaitingForResponses"
  /\ memory[6].st = "Dynamic" /\ memory[12].st = "Dynamic"
  /\ memory[6].state.limit_times = <<1>>
  /\ memory[6].state.limit_count = <<1>>
  /\ memory[12].state.limit_times = <<0>>
  /\ memory[12].state.limit_count = <<1>>
  /\ budget.dice - roller.dice_count_limit = 4
  /\ budget.rounds - roller.recursion_limit = 2



(***************************************************************************)
(* C16  The default comparator of explode and compound-explode             *)
(***************************************************************************)
\* the largest face of a die
MaxFace(face) ==
  CASE face.k = "Number" -> face.n
    [] face.k = "Fudge" -> 1
    [] face.k = "Coin" -> 1

\* the dice node i looks at in this evaluation step, as <<index, value>>:
\* the kept dice of its operand when it starts, the dice just merged after
\* that (a new die per pending slot for explode, the rolled-for die with the
\* rolled value for compound)
FreshDice(i) ==
  IF memory[i].st = "Dynamic"
  THEN LET old == memory[i].state.pool.details
           pd == PendingOf(i)
       IN  {<<(IF graph.nodes[i].kind = "DiceCompoundExplode"
               THEN pd[j].idx ELSE Len(old) + j), pd[j].value[1]>> :
              j \in 1..Len(pd)}
  ELSE LET details ==
             roller'.context.memory[graph.nodes[i].a].v.pool.details
       IN  {<<j, details[j].result>> :
              j \in {k \in 1..Len(details) : details[k].is_kept}}

\* node i starts or goes on resolving in this evaluation step
Scans(i) ==
  /\ last'.op = "evaluation" /\ last'.ret = "Ok" /\ last'.res # "Err"
  /\ \/ Merges(i)
     \/ memory[i].st = "Waiting" /\ roller'.context.memory[i].st # "Waiting"

\* an explode or compound-explode node with neither comparator nor caps
Plain(i) ==
  /\ graph.nodes[i].kind \in {"DiceExplode", "DiceCompoundExplode"}
  /\ graph.nodes[i].mp = <<>>
  /\ graph.nodes[i].limit = <<>>

\* C16: an explode or compound-explode node without a comparator (and
\* without caps) asks for a new roll for exactly the dice whose value is the
\* largest face of the pool: the number of sides of a numeric die, 1 for a
\* fudge die, 1 for a coin; it resolves when no die shows that value.
C16_DefaultComparator ==
  [][\A i \in DOMAIN graph.nodes :
       (Plain(i) /\ Scans(i)) =>
         LET slot == roller'.context.memory[i]
             Q == {f \in FreshDice(i) : f[2] = MaxFace(PoolAfter(i).face)}
         IN  IF Q = {}
             THEN slot.st = "Computed"
             ELSE /\ slot.st = "Dynamic"
                  /\ {slot.state.pending_dice[j].idx :
                        j \in 1..Len(slot.state.pending_dice)}
                       = {f[1] : f \in Q}
                  /\ Len(slot.state.pending_dice) = Cardinality(Q)]_vars

\* 1dF!! has rolled 1 and then 0: the die was rolled again for the 1 and
\* not for the 0
C16_Witness ==
  /\ graph = GFudgeCompound
  /\ memory[3].st = "Computed"
  /\ Len(memory[3].v.pool.details) = 1
  /\ memory[3].v.pool.details[1].roll_history = <<1, 0>>



(***************************************************************************)
(* C17  A merged explode round                                             *)
(***************************************************************************)
\* the evaluation step merges the answered pending set of node i and
\* eval_node does not fail
MergesOk(i) == Merges(i) /\ last'.res # "Err"

\* the last request node i has pushed: the one its pending set answers
AnsweredRequest(i) == EmittedBy(i)[Len(EmittedBy(i))]

\* C17: when an evaluation merges the answered pending set of an explode
\* node, the details of its pool grow by the count of the answered request:
\* one new kept die per pending die, in order, whose result is the value
\* rolled for it; no die that was there before changes its result or its
\* kept flag.
C17_ExplodeRound ==
  [][\A i \in DOMAIN graph.nodes :
       (graph.nodes[i].kind = "DiceExplode" /\ MergesOk(i)) =>
         LET old == memory[i].state.pool.details
             new_details == PoolAfter(i).details
             pd == PendingOf(i)
         IN  /\ Len(pd) = AnsweredRequest(i).count
             /\ Len(new_details) = Len(old) + Len(pd)
             /\ \A j \in 1..Len(old) :
                  /\ new_details[j].result = old[j].result
                  /\ new_details[j].is_kept = old[j].is_kept
             /\ \A j \in 1..Len(pd) :
                  /\ new_details[Len(old) + j].result = pd[j].value[1]
                  /\ new_details[Len(old) + j].is_kept]_vars

\* 2d2! whose two dice showed 2 has merged a round of two dice, 1 and 2:
\* four dice, the two new ones last, and a request for the new 2
C17_Witness ==
  /\ graph = GExplode
  /\ memory[4].st = "Dynamic"
  /\ Len(memory[4].state.pool.details) = 4
  /\ memory[4].state.pool.details[3].result = 1
  /\ memory[4].state.pool.details[4].result = 2
  /\ \A j \in 1..4 : memory[4].state.pool.details[j].is_kept
  /\ Len(PendingOf(4)) = 1 /\ PendingOf(4)[1].idx = 4



(***************************************************************************)
(* C18  Compound-explode                                                   *)
(***************************************************************************)
\* the pool held in a memory slot that is Dynamic or Computed
SlotPool(slot) == IF slot.st = "Dynamic" THEN slot.state.pool ELSE slot.v.pool

\* the entries of a roll history after the first k
Later(history, k) == SubSeq(history, k + 1, Len(history))

\* in memory mem, the pool of every compound-explode node has as many
\* details as the pool of its operand, and every die's result is the result
\* it has in the operand plus the values rolled for it since
CompoundSums(mem) ==
  \A i \in DOMAIN graph.nodes :
    (graph.nodes[i].kind = "DiceCompoundExplode" /\ mem[i].st # "Waiting") =>
      LET details == SlotPool(mem[i]).details
          operand == mem[graph.nodes[i].a].v.pool.details
      IN  /\ Len(details) = Len(operand)
          /\ \A j \in 1..Len(details) :
               details[j].result =
                 operand[j].result
                 + SumSeq(Later(details[j].roll_history,
                                Len(operand[j].roll_history)))

\* C18: when an evaluation merges the answered pending set of a
\* compound-explode node, the number of details stays the same; every die a
\* value was rolled for has that value added to its result and appended to
\* its roll history, and the other dice keep both.  So at any time, and at
\* resolution, a die's result is its result in the operand pool plus the sum
\* of the values the modifier rolled for it.
C18_CompoundRound ==
  [][/\ \A i \in DOMAIN graph.nodes :
         (graph.nodes[i].kind = "DiceCompoundExplode" /\ MergesOk(i)) =>
           LET old == memory[i].state.pool.details
               new_details == PoolAfter(i).details
               pd == PendingOf(i)
               rolled == {pd[j].idx : j \in 1..Len(pd)}
           IN  /\ Len(new_details) = Len(old)
               /\ \A j \in 1..Len(pd) :
                    /\ new_details[pd[j].idx].result =
                         old[pd[j].idx].result + pd[j].value[1]
                    /\ new_details[pd[j].idx].roll_history =
                         Append(old[pd[j].idx].roll_history, pd[j].value[1])
               /\ \A k \in (1..Len(old)) \ rolled :
                    /\ new_details[k].result = old[k].result
                    /\ new_details[k].roll_history = old[k].roll_history
     /\ CompoundSums(roller'.context.memory)]_vars

\* 1d2!! lt1 lc2 whose die showed 2 and was rolled 2 again: one die with
\* result 4 and both rolls in its history
C18_Witness ==
  /\ graph = GCompound
  /\ memory[6].st = "Computed"
  /\ Len(memory[6].v.pool.details) = 1
  /\ memory[6].v.pool.details[1].result = 4
  /\ memory[6].v.pool.details[1].roll_history = <<2, 2>>



(***************************************************************************)
(* C19  Reroll                                                             *)
(***************************************************************************)
\* the number of kept dice
KeptCount(details) ==
  Cardinality({j \in 1..Len(details) : details[j].is_kept})

\* in memory mem, the pool of every reroll node has as many kept dice as
\* the pool of its operand
RerollKeepsCount(mem) ==
  \A i \in DOMAIN graph.nodes :
    (graph.nodes[i].kind = "DiceReroll" /\ mem[i].st # "Waiting") =>
      KeptCount(SlotPool(mem[i]).details)
        = KeptCount(mem[graph.nodes[i].a].v.pool.details)

\* C19: when an evaluation merges the answered pending set of a reroll
\* node, every die a value was rolled for becomes not kept and rerolled, and
\* one new kept die with the rolled value is appended for it; the other dice
\* keep their flags.  So the pool of a reroll node has, after every round
\* and at resolution, as many kept dice as the pool of its operand.
C19_RerollRound ==
  [][/\ \A i \in DOMAIN graph.nodes :
         (graph.nodes[i].kind = "DiceReroll" /\ MergesOk(i)) =>
           LET old == memory[i].state.pool.details
               new_details == PoolAfter(i).details
               pd == PendingOf(i)
               replaced == {pd[j].idx : j \in 1..Len(pd)}
           IN  /\ Len(new_details) = Len(old) + Len(pd)
               /\ \A k \in replaced :
                    /\ old[k].is_kept
                    /\ ~new_details[k].is_kept
                    /\ new_details[k].is_rerolled
                    /\ new_details[k].result = old[k].result
               /\ \A k \in (1..Len(old)) \ replaced :
                    new_details[k] = old[k]
               /\ \A j \in 1..Len(pd) :
                    /\ new_details[Len(old) + j].result = pd[j].value[1]
                    /\ new_details[Len(old) + j].is_kept
                    /\ ~new_details[Len(old) + j].is_rerolled
     /\ RerollKeepsCount(roller'.context.memory)]_vars

\* 2d2r>=1 lt1 resolved: both dice were replaced once, four details of
\* which the two new ones are kept
C19_Witness ==
  /\ graph = GRerollTimes
  /\ memory[6].st = "Computed"
  /\ Len(memory[6].v.pool.details) = 4
  /\ \A j \in 1..2 : /\ ~memory[6].v.pool.details[j].is_kept
                       /\ memory[6].v.pool.details[j].is_rerolled
  /\ \A j \in 3..4 : memory[6].v.pool.details[j].is_kept
  /\ KeptCount(memory[3].v.pool.details) = 2


(***************************************************************************)
(* CompilerSpec: compile_hir_to_eval_graph applied to a HIR term.  The     *)
(* terms are the expressions of the sessions and every term built from one *)
(* operator over constants and base pools.                                 *)
(***************************************************************************)
CompilerInputs ==
  LET consts == {HConstant(1), HConstant(2)}
      base == {HStandard(c, f) : c, f \in consts}
              \cup {HFudge(c) : c \in consts} \cup {HCoin(c) : c \in consts}
      numbers == consts \cup base
      values == {<<>>} \cup {<<c>> : c \in consts}
      params == {ModParam(op, c) : op \in {"Equal", "Greater"}, c \in consts}
      limits == {<<>>} \cup ({<<Limit(t, c)>> : t, c \in values}
                             \ {<<Limit(<<>>, <<>>)>>})
  IN  Expressions \cup ArithmeticExpressions
      \cup {HAdd(l, r) : l, r \in numbers}
      \cup {HSubtract(l, r) : l, r \in numbers}
      \cup {HIntDivide(l, r) : l, r \in numbers}
      \cup {HExplicit(<<>>)}
      \cup {HExplicit(<<x>>) : x \in numbers}
      \cup {HExplicit(<<x, y>>) : x, y \in numbers}
      \cup {HKeepHigh(q, c) : q \in base, c \in consts}
      \cup {HMin(q, c) : q \in base, c \in consts}
      \cup {HMax(q, c) : q \in base, c \in consts}
      \cup {HExplode(q, <<>>, l) : q \in base, l \in limits}
      \cup {HExplode(q, <<m>>, l) : q \in base, m \in params, l \in limits}
      \cup {HCompoundExplode(q, <<>>, l) : q \in base, l \in limits}
      \cup {HCompoundExplode(q, <<m>>, l) :
               q \in base, m \in params, l \in limits}
      \cup {HReroll(q, m, l) : q \in base, m \in params, l \in limits}

\* nothing compiled yet
NoGraph == [nodes |-> <<>>, root |-> 0]

CompilerInit ==
  /\ hir \in CompilerInputs
  /\ graph = NoGraph
  /\ roller = DiceRollerWithoutAnimation(NoGraph, 0, 0)
  /\ budget = [rounds |-> 0, dice |-> 0]
  /\ counter = 0
  /\ drawn = 0
  /\ cycles = 0
  /\ last = NoCall
  /\ calls = 0
  /\ batch = <<>>
  /\ emitted = <<>>

Compile ==
  /\ last.op = "new"
  /\ graph' = compile_hir_to_eval_graph(hir)
  /\ last' = Call("compile_hir_to_eval_graph", "Ok", "-", [k |-> "None"], 0)
  /\ UNCHANGED <<roller, counter, budget, drawn, cycles, calls, batch,
                 emitted, hir>>

CompilerNext == Compile

CompilerSpec == CompilerInit /\ [][CompilerNext]_vars

(***************************************************************************)
(* C20  Compiled graphs are in post-order                                  *)
(***************************************************************************)
\* every node id a node refers to: operands, comparator value, limit
\* operands, list elements (0 stands for an operand the variant lacks)
Children(n) ==
  ({n.a, n.b} \ {0})
  \cup Range(n.elems)
  \cup {n.mp[j].value : j \in DOMAIN n.mp}
  \cup UNION {Range(n.limit[j].limit_times) \cup Range(n.limit[j].limit_counts)
                : j \in DOMAIN n.limit}

Compiled == last.op = "compile_hir_to_eval_graph"

\* C20: in the graph the compiler returns, every node id that the node at
\* position i refers to (operands, comparator value, limit operands, list
\* elements) is the position of an earlier node, and the root is the last
\* node; so no node reaches itself.
C20_PostOrder ==
  Compiled =>
    /\ graph.nodes # <<>>
    /\ graph.root = Len(graph.nodes)
    /\ \A i \in DOMAIN graph.nodes :
         \A c \in Children(graph.nodes[i]) : c >= 1 /\ c < i

\* 2d2r>=1 lt1 compiled: the reroll node is the root and the last of six
\* nodes; its pool, its comparator value and its round cap come before it
C20_Witness ==
  /\ Compiled
  /\ graph = GRerollTimes
  /\ Children(graph.nodes[6]) = {3, 4, 5}
  /\ graph.root = 6



(***************************************************************************)
(* C21  A divisor that is zero at evaluation time                          *)
(***************************************************************************)
\* the number a Computed slot stands for
NumberIn(slot) == except_number(slot.v).n

\* both operands of division node i are Computed and its divisor is zero:
\* the right operand of a numeric division, the number of a broadcast
\* division, an element of the list of a reversed division
DivisorZero(i) ==
  LET n == graph.nodes[i]
      both == memory[n.a].st = "Computed" /\ memory[n.b].st = "Computed"
  IN  \/ /\ n.kind \in {"NumDivide", "NumIntDivide", "NumModulo",
                         "ListDivide", "ListIntDivide", "ListModulo"}
         /\ both
         /\ NumberIn(memory[n.b]) = 0
      \/ /\ n.kind \in {"ListDivideReverse", "ListIntDivideReverse",
                         "ListModuloReverse"}
         /\ both
         /\ \E j \in DOMAIN memory[n.b].v.l : memory[n.b].v.l[j] = 0

\* C21: a division, integer-division or modulo node whose divisor is zero
\* is never Computed, and the evaluation that finds the zero leaves the
\* session in Error with no result.
C21_ZeroDivisorIsError ==
  \A i \in DOMAIN graph.nodes :
    DivisorZero(i) =>
      /\ memory[i].st # "Computed"
      /\ (last.op = "evaluation" /\ last.ret = "Ok") =>
            /\ roller.state.k = "Error"
            /\ try_get_results(roller).k = "Err"

(***************************************************************************)
(* optimizer/fold_binary_op.rs.  A term is a Hir record; an f64 constant   *)
(* is an integer.  A fold returns Folded(t) for Ok(Some(t)), Unfolded for  *)
(* Ok(None) and FoldError(e) for Err(e).                                   *)
(***************************************************************************)
Folded(t) == [k |-> "Some", v |-> t, e |-> ""]
Unfolded == [k |-> "None", v |-> HConstant(0), e |-> ""]
FoldError(e) == [k |-> "Err", v |-> HConstant(0), e |-> e]

HNeg(inner) == Hir("Neg", 0, <<inner>>, <<>>, <<>>)

is_constant(n) == n.t = "Constant"

Term(node, sign) == [node |-> node, sign |-> sign]

RECURSIVE flatten_add_sub(_, _, _)
flatten_add_sub(node, sign, st) ==
  CASE node.t = "Constant" -> [st EXCEPT !.acc = @ + node.v * sign]
    [] node.t = "Add" ->
         flatten_add_sub(node.kids[2], sign,
                         flatten_add_sub(node.kids[1], sign, st))
    [] node.t = "Subtract" ->
         flatten_add_sub(node.kids[2], 0 - sign,
                         flatten_add_sub(node.kids[1], sign, st))
    [] node.t = "Neg" -> flatten_add_sub(node.kids[1], 0 - sign, st)
    [] OTHER -> [st EXCEPT !.terms = Append(@, Term(node, sign))]

\* Variant of rebuild_add_tree that chains the terms from the last to the
\* first.
RECURSIVE rebuild_add_tree_reversed(_)
rebuild_add_tree_reversed(terms) ==
  IF terms = <<>> THEN HConstant(0)
  ELSE LET n == Len(terms)
           first == IF terms[n].sign < 0 THEN HNeg(terms[n].node)
                    ELSE terms[n].node
           chain[j \in 0..(n - 1)] ==
             IF j = 0 THEN first
             ELSE IF terms[n - j].sign > 0
                  THEN HAdd(chain[j - 1], terms[n - j].node)
                  ELSE HSubtract(chain[j - 1], terms[n - j].node)
       IN  chain[n - 1]

rebuild_add_tree(terms) ==
  IF terms = <<>> THEN HConstant(0)
  ELSE LET first == IF terms[1].sign < 0 THEN HNeg(terms[1].node)
                    ELSE terms[1].node
           chain[j \in 1..Len(terms)] ==
             IF j = 1 THEN first
             ELSE IF terms[j].sign > 0
                  THEN HAdd(chain[j - 1], terms[j].node)
                  ELSE HSubtract(chain[j - 1], terms[j].node)
       IN  chain[Len(terms)]

\* enum DiceType with its derived order: variants in declaration order,
\* then the fields in order (false < true)
DiceType(variant, is_add, sides) ==
  [variant |-> variant, is_add |-> is_add, sides |-> sides]
VariantRank(v) ==
  CASE v = "Standard" -> 0 [] v = "Fudge" -> 1 [] v = "Coin" -> 2
DiceTypeLess(x, y) ==
  \/ VariantRank(x.variant) < VariantRank(y.variant)
  \/ /\ x.variant = y.variant
     /\ \/ (~x.is_add /\ y.is_add)
        \/ (x.is_add = y.is_add /\ x.sides < y.sides)

\* `c as i32` of a count, after the clamp of a non-positive count to 0
count_as_i32(c) == IF c > 0 THEN AsI32(c) ELSE 0

\* Variant of mergeable_dice that files the terms of both signs under the
\* same key.
mergeable_dice_unsigned(node, sign) ==
  IF node.t = "Standard" /\ is_constant(node.kids[1])
                        /\ is_constant(node.kids[2])
  THEN <<[dice_type |-> DiceType("Standard", TRUE, AsI32(node.kids[2].v)),
          count |-> count_as_i32(node.kids[1].v)]>>
  ELSE IF node.t \in {"Fudge", "Coin"} /\ is_constant(node.kids[1])
  THEN <<[dice_type |-> DiceType(node.t, TRUE, 0),
          count |-> count_as_i32(node.kids[1].v)]>>
  ELSE <<>>

\* Variant of mergeable_dice that looks through a keep-high layer.
mergeable_dice_through_modifier(node, sign) ==
  LET d == IF node.t = "KeepHigh" THEN node.kids[1] ELSE node
  IN  IF d.t = "Standard" /\ is_constant(d.kids[1]) /\ is_constant(d.kids[2])
      THEN <<[dice_type |-> DiceType("Standard", sign > 0, AsI32(d.kids[2].v)),
              count |-> count_as_i32(d.kids[1].v)]>>
      ELSE IF d.t \in {"Fudge", "Coin"} /\ is_constant(d.kids[1])
      THEN <<[dice_type |-> DiceType(d.t, sign > 0, 0),
              count |-> count_as_i32(d.kids[1].v)]>>
      ELSE <<>>

\* Option<(DiceType, i32)> as a sequence of length 0 or 1
mergeable_dice(node, sign) ==
  IF node.t = "Standard" /\ is_constant(node.kids[1])
                        /\ is_constant(node.kids[2])
  THEN <<[dice_type |-> DiceType("Standard", sign > 0, AsI32(node.kids[2].v)),
          count |-> count_as_i32(node.kids[1].v)]>>
  ELSE IF node.t \in {"Fudge", "Coin"} /\ is_constant(node.kids[1])
  THEN <<[dice_type |-> DiceType(node.t, sign > 0, 0),
          count |-> count_as_i32(node.kids[1].v)]>>
  ELSE <<>>

\* the keys of a BTreeMap from the greatest to the least (into_iter().rev())
RECURSIVE descending(_)
descending(keys) ==
  IF keys = {} THEN <<>>
  ELSE LET top == CHOOSE x \in keys : \A y \in keys \ {x} : DiceTypeLess(y, x)
       IN  <<top>> \o descending(keys \ {top})

merge_terms(terms) ==
  LET idx == DOMAIN terms
      md(j) == mergeable_dice(terms[j].node, terms[j].sign)
      keys == {md(j)[1].dice_type : j \in {i \in idx : md(i) # <<>>}}
      dice_map(key) ==
        LET hits == [j \in idx |->
                       IF md(j) # <<>> /\ md(j)[1].dice_type = key
                       THEN md(j)[1].count ELSE 0]
        IN  SumSeq(hits)
      unmergeable_terms == SelectSeq(terms,
                             LAMBDA t : mergeable_dice(t.node, t.sign) = <<>>)
      order == descending(keys)
      pool(key) ==
        LET counts_node == HConstant(dice_map(key))
        IN  CASE key.variant = "Standard" ->
                   HStandard(counts_node, HConstant(key.sides))
              [] key.variant = "Fudge" -> HFudge(counts_node)
              [] key.variant = "Coin" -> HCoin(counts_node)
      rebuilt == [j \in DOMAIN order |->
                    Term(pool(order[j]), IF order[j].is_add THEN 1 ELSE 0 - 1)]
      new_terms == SelectSeq(rebuilt,
                     LAMBDA t : t.node.kids[1].v # 0)
  IN  new_terms \o unmergeable_terms

fold_linear_add_sub(left, right, is_subtract) ==
  LET st == flatten_add_sub(right, IF is_subtract THEN 0 - 1 ELSE 1,
              flatten_add_sub(left, 1, [terms |-> <<>>, acc |-> 0]))
      terms == merge_terms(st.terms)
      constant_acc == st.acc
  IN  IF terms = <<>> THEN Folded(HConstant(constant_acc))
      ELSE IF constant_acc = 0 THEN Folded(rebuild_add_tree(terms))
      ELSE IF constant_acc > 0
      THEN Folded(HAdd(rebuild_add_tree(terms), HConstant(constant_acc)))
      ELSE Folded(HSubtract(rebuild_add_tree(terms),
                            HConstant(0 - constant_acc)))

RECURSIVE flatten_mul(_, _)
flatten_mul(node, st) ==
  CASE node.t = "Constant" -> [st EXCEPT !.acc = @ * node.v]
    [] node.t = "Multiply" ->
         flatten_mul(node.kids[2], flatten_mul(node.kids[1], st))
    [] OTHER -> [st EXCEPT !.terms = Append(@, node)]

rebuild_mul_tree(terms) ==
  IF terms = <<>> THEN HConstant(1)
  ELSE LET chain[j \in 1..Len(terms)] ==
             IF j = 1 THEN terms[1] ELSE HMultiply(chain[j - 1], terms[j])
       IN  chain[Len(terms)]

fold_linear_multiply(left, right) ==
  LET st == flatten_mul(right, flatten_mul(left, [terms |-> <<>>, acc |-> 1]))
  IN  IF st.acc = 0 THEN Folded(HConstant(0))
      ELSE IF st.terms = <<>> THEN Folded(HConstant(st.acc))
      ELSE IF st.acc = 1 THEN Folded(rebuild_mul_tree(st.terms))
      ELSE Folded(HMultiply(rebuild_mul_tree(st.terms), HConstant(st.acc)))

fold_divide(l, r) ==
  IF ~is_constant(r) THEN Unfolded
  ELSE IF r.v = 0 THEN FoldError("Division by zero")
  ELSE IF is_constant(l) THEN Folded(HConstant(Quotient(l.v, r.v)))
  ELSE IF l.t = "Divide" /\ is_constant(l.kids[2])
  THEN IF l.kids[2].v * r.v = 0
       THEN FoldError("Division by zero after optimization")
       ELSE Folded(HDivide(l.kids[1], HConstant(l.kids[2].v * r.v)))
  ELSE Unfolded

fold_binary_op(op) ==
  LET l == op.kids[1]
      r == op.kids[2]
  IN  CASE op.t \in {"Add", "Subtract"} ->
             fold_linear_add_sub(l, r, op.t = "Subtract")
        [] op.t = "Multiply" -> fold_linear_multiply(l, r)
        [] op.t = "Divide" -> fold_divide(l, r)
        [] op.t = "IntDivide" ->
             IF is_constant(l) /\ is_constant(r)
             THEN IF r.v = 0 THEN FoldError("Integer division by zero")
                  ELSE Folded(HConstant(FloorDiv(l.v, r.v)))
             ELSE Unfolded
        [] op.t = "Modulo" ->
             IF is_constant(l) /\ is_constant(r)
             THEN IF r.v = 0 THEN FoldError("Modulo by zero")
                  ELSE Folded(HConstant(Remainder(l.v, r.v)))
             ELSE Unfolded

(***************************************************************************)
(* optimizer/constant_fold.rs                                              *)
(***************************************************************************)
HListMax(list, count) == Hir("ListMax", 0, <<list, count>>, <<>>, <<>>)
HListMin(list, count) == Hir("ListMin", 0, <<list, count>>, <<>>, <<>>)
\* HIR::max_number and HIR::min_number (NumberFunction Max / Min)
max_number(list) == Hir("NumMax", 0, <<list>>, <<>>, <<>>)
min_number(list) == Hir("NumMin", 0, <<list>>, <<>>, <<>>)

is_explicit(l) == l.t = "Explicit"
is_constant_list(l) ==
  is_explicit(l) /\ \A j \in DOMAIN l.kids : is_constant(l.kids[j])

\* `(count as i64) as f64`: the truncation leaves an integral value as it is
truncate_i64(x) == x

fold_dice_pool(dice_pool) ==
  LET count_box == dice_pool.kids[1]
  IN  CASE dice_pool.t = "Standard" ->
             LET side_box == dice_pool.kids[2]
                 new_count == truncate_i64(count_box.v)
                 new_side == truncate_i64(side_box.v)
             IN  IF ~is_constant(count_box) /\ ~is_constant(side_box)
                 THEN Unfolded
                 ELSE IF is_constant(count_box) /\ new_count <= 0
                 THEN Folded(HConstant(0))
                 ELSE IF is_constant(side_box) /\ new_side <= 0
                 THEN Folded(HConstant(0))
                 ELSE IF (is_constant(count_box) /\ count_box.v # new_count)
                         \/ (is_constant(side_box) /\ side_box.v # new_side)
                 THEN Folded(HStandard(
                        IF is_constant(count_box) /\ count_box.v # new_count
                        THEN HConstant(new_count) ELSE count_box,
                        IF is_constant(side_box) /\ side_box.v # new_side
                        THEN HConstant(new_side) ELSE side_box))
                 ELSE Unfolded
        [] dice_pool.t \in {"Fudge", "Coin"} /\ is_constant(count_box) ->
             LET new_count == truncate_i64(count_box.v)
             IN  IF new_count > 0
                 THEN IF new_count = count_box.v THEN Unfolded
                      ELSE Folded(Hir(dice_pool.t, 0, <<HConstant(new_count)>>,
                                      <<>>, <<>>))
                 ELSE Folded(HConstant(0))
        [] OTHER -> Unfolded

\* the closure a broadcast arm hands to try_map_constant_list
fold_list_closure(kind, v, num) ==
  CASE kind = "ListAdd" -> v + num
    [] kind = "ListMultiply" -> v * num
    [] kind = "ListSubtract" -> v - num
    [] kind = "ListSubtractReverse" -> num - v
    [] kind = "ListDivide" -> Quotient(v, num)
    [] kind = "ListDivideReverse" -> Quotient(num, v)
    [] kind = "ListModulo" -> Remainder(v, num)
    [] kind = "ListModuloReverse" -> Remainder(num, v)
    [] kind = "ListIntDivide" -> FloorDiv(v, num)
    [] kind = "ListIntDivideReverse" -> FloorDiv(num, v)

\* Option<ListType>
try_map_constant_list(list, kind, num) ==
  IF is_constant_list(list)
  THEN Folded(HExplicit([j \in DOMAIN list.kids |->
                           HConstant(fold_list_closure(kind, list.kids[j].v,
                                                       num))]))
  ELSE Unfolded

\* vec.iter().position(|n| matches!(n, Constant(v) if *v == 0.0))
zero_position(list) ==
  IF is_explicit(list)
  THEN {j \in DOMAIN list.kids :
          is_constant(list.kids[j]) /\ list.kids[j].v = 0}
  ELSE {}

fold_list_binary_op(list_bin_op) ==
  LET kind == list_bin_op.t
      reverse == kind \in ListReverseKinds
      list == IF reverse THEN list_bin_op.kids[2] ELSE list_bin_op.kids[1]
      num == IF reverse THEN list_bin_op.kids[1] ELSE list_bin_op.kids[2]
  IN  IF kind = "AddList"
      THEN IF ~is_explicit(list_bin_op.kids[1])
              \/ ~is_explicit(list_bin_op.kids[2])
           THEN Unfolded
           ELSE Folded(HExplicit(list_bin_op.kids[1].kids
                                 \o list_bin_op.kids[2].kids))
      ELSE IF ~is_constant(num) THEN Unfolded
      ELSE IF kind = "ListDivide" /\ num.v = 0
      THEN FoldError("Division by zero in list division")
      ELSE IF kind = "ListModulo" /\ num.v = 0
      THEN FoldError("Modulo by zero in list modulo")
      ELSE IF kind = "ListIntDivide" /\ num.v = 0
      THEN FoldError("Integer division by zero in list integer division")
      ELSE IF kind = "ListDivideReverse" /\ zero_position(list) # {}
      THEN FoldError("Division by zero in reverse list division at index")
      ELSE IF kind = "ListModuloReverse" /\ zero_position(list) # {}
      THEN FoldError("Modulo by zero in reverse list modulo at index")
      ELSE IF kind = "ListIntDivideReverse" /\ zero_position(list) # {}
      THEN FoldError(
             "Integer division by zero in reverse list integer division at index")
      ELSE try_map_constant_list(list, kind, num.v)

\* `raw_count as usize` of a non-negative integral count
as_usize(x) == IF x < 0 THEN 0 ELSE x

\* Variant of keep_elements_preserve_order whose sort puts the later of two
\* equal values first.
keep_elements_later_ties(values, raw_count, keep_highest) ==
  LET count == as_usize(raw_count)
      before(i, j) ==
        IF values[i] = values[j] THEN i > j
        ELSE IF keep_highest THEN values[i] > values[j]
        ELSE values[i] < values[j]
      rank(i) == Cardinality({j \in DOMAIN values : before(j, i)})
      top_k == SelectSeq([j \in DOMAIN values |-> [index |-> j, val |-> values[j]]],
                         LAMBDA p : rank(p.index) < count)
  IN  IF raw_count < 0 THEN HExplicit(<<>>)
      ELSE IF count >= Len(values)
      THEN HExplicit([j \in DOMAIN values |-> HConstant(values[j])])
      ELSE HExplicit([j \in DOMAIN top_k |-> HConstant(top_k[j].val)])

\* the stable sort by value puts i before j when i's value is strictly
\* better, or equal with i the earlier index; take(count) keeps the first
\* count of them and sort_by_key(index) restores the original order
keep_elements_preserve_order(values, raw_count, keep_highest) ==
  LET count == as_usize(raw_count)
      before(i, j) ==
        IF values[i] = values[j] THEN i < j
        ELSE IF keep_highest THEN values[i] > values[j]
        ELSE values[i] < values[j]
      rank(i) == Cardinality({j \in DOMAIN values : before(j, i)})
      top_k == SelectSeq([j \in DOMAIN values |-> [index |-> j, val |-> values[j]]],
                         LAMBDA p : rank(p.index) < count)
  IN  IF raw_count < 0 THEN HExplicit(<<>>)
      ELSE IF count >= Len(values)
      THEN HExplicit([j \in DOMAIN values |-> HConstant(values[j])])
      ELSE HExplicit([j \in DOMAIN top_k |-> HConstant(top_k[j].val)])

try_get_constant_values(list) == [j \in DOMAIN list.kids |-> list.kids[j].v]

fold_list_function(func) ==
  IF func.t \in {"ListMax", "ListMin"}
     /\ is_constant_list(func.kids[1]) /\ is_constant(func.kids[2])
  THEN Folded(keep_elements_preserve_order(
                try_get_constant_values(func.kids[1]), func.kids[2].v,
                func.t = "ListMax"))
  ELSE Unfolded

NumberBinaryKinds ==
  {"Add", "Subtract", "Multiply", "Divide", "IntDivide", "Modulo"}
KeepKinds == {"KeepHigh", "KeepLow", "DropHigh", "DropLow", "Min", "Max"}
ExplodeKinds == {"Explode", "CompoundExplode", "Reroll"}
DicePoolKinds == {"Standard", "Fudge", "Coin"} \cup KeepKinds \cup ExplodeKinds

\* the outcome of a visit: Ok(()) with the rewritten term, or Err(e)
Visited(t) == [ok |-> TRUE, t |-> t, e |-> ""]
VisitError(e) == [ok |-> FALSE, t |-> HConstant(0), e |-> e]

\* a node replaced by what its fold computed, if it computed something
replace(n, new_val) ==
  CASE new_val.k = "Err" -> VisitError(new_val.e)
    [] new_val.k = "Some" -> Visited(new_val.v)
    [] OTHER -> Visited(n)

\* HirVisitor: a node is visited children first, then itself; sort says
\* which of visit_number, visit_dice_pool and visit_list the visit is
RECURSIVE visit(_, _)

visit_number(n) == visit("number", n)
visit_dice_pool(d) == visit("pool", d)
visit_list(l) == visit("list", l)

\* which visitor each operand of a node goes through
child_sorts(n) ==
  CASE n.t \in KeepKinds -> <<"pool", "number">>
    [] n.t \in ExplodeKinds -> <<"pool">>
    [] n.t \in ListScalarKinds \cup {"ListMax", "ListMin"} ->
         <<"list", "number">>
    [] n.t \in ListReverseKinds -> <<"number", "list">>
    [] n.t = "AddList" -> <<"list", "list">>
    [] n.t \in {"NumMax", "NumMin"} -> <<"list">>
    [] OTHER -> [j \in DOMAIN n.kids |-> "number"]

\* the visits of a node's operands in order, stopping at the first error
RECURSIVE visit_each(_, _, _, _)
visit_each(kids, sorts, j, acc) ==
  IF j > Len(kids) THEN [ok |-> TRUE, kids |-> acc, e |-> ""]
  ELSE LET with(r) ==
             IF r.ok THEN visit_each(kids, sorts, j + 1, Append(acc, r.t))
             ELSE [ok |-> FALSE, kids |-> acc, e |-> r.e]
       IN  with(visit(sorts[j], kids[j]))

\* an Option<Box<NumberType>> operand
visit_option(opt) == visit_each(opt, [j \in DOMAIN opt |-> "number"], 1, <<>>)

\* HirVisitor::visit_mod_param on an Option<ModParam>
visit_mod_param(param) ==
  IF param = <<>> THEN [ok |-> TRUE, v |-> param, e |-> ""]
  ELSE LET with(r) ==
             IF r.ok
             THEN [ok |-> TRUE, v |-> <<ModParam(param[1].operator, r.t)>>,
                   e |-> ""]
             ELSE [ok |-> FALSE, v |-> param, e |-> r.e]
       IN  with(visit_number(param[1].value))

\* HirVisitor::visit_limit on an Option<Limit>
visit_limit(lim) ==
  IF lim = <<>> THEN [ok |-> TRUE, v |-> lim, e |-> ""]
  ELSE LET with(times) ==
             IF ~times.ok THEN [ok |-> FALSE, v |-> lim, e |-> times.e]
             ELSE LET then(counts) ==
                        IF ~counts.ok
                        THEN [ok |-> FALSE, v |-> lim, e |-> counts.e]
                        ELSE [ok |-> TRUE,
                              v |-> <<Limit(times.kids, counts.kids)>>,
                              e |-> ""]
                  IN  then(visit_option(lim[1].limit_counts))
       IN  with(visit_option(lim[1].limit_times))

\* visit_*_children: operands, then comparator, then limit
visit_children(n) ==
  LET with(ks) ==
        IF ~ks.ok THEN VisitError(ks.e)
        ELSE LET then(mp) ==
                   IF ~mp.ok THEN VisitError(mp.e)
                   ELSE LET last_of(lim) ==
                              IF ~lim.ok THEN VisitError(lim.e)
                              ELSE Visited([n EXCEPT !.kids = ks.kids,
                                                     !.param = mp.v,
                                                     !.limit = lim.v])
                        IN  last_of(visit_limit(n.limit))
             IN  then(visit_mod_param(n.param))
  IN  with(visit_each(n.kids, child_sorts(n), 1, <<>>))

\* fold_number_function, the Max and Min arms, with fold_list_aggregate
fold_number_function(func) ==
  IF is_explicit(func.kids[1]) /\ is_constant_list(func.kids[1])
  THEN Folded(HConstant(
         fold_f64(try_get_constant_values(func.kids[1]),
                  IF func.t = "NumMax" THEN 0 - Infinity ELSE Infinity,
                  func.t = "NumMax")))
  ELSE Unfolded

\* ConstantFolder::visit_number_self
visit_number_self(n) ==
  replace(n,
    CASE n.t = "Neg" ->
           IF is_constant(n.kids[1]) THEN Folded(HConstant(0 - n.kids[1].v))
           ELSE Unfolded
      [] n.t \in NumberBinaryKinds -> fold_binary_op(n)
      [] n.t \in DicePoolKinds -> fold_dice_pool(n)
      [] n.t \in {"NumMax", "NumMin"} -> fold_number_function(n)
      [] OTHER -> Unfolded)

\* ConstantFolder::visit_list_self
visit_list_self(l) ==
  replace(l,
    CASE l.t \in {"ListMax", "ListMin"} -> fold_list_function(l)
      [] l.t \in ListScalarKinds \cup ListReverseKinds \cup {"AddList"} ->
           fold_list_binary_op(l)
      [] OTHER -> Unfolded)

\* ConstantFolder leaves visit_dice_pool_self at its default: Ok(())
visit(sort, n) ==
  LET with(c) ==
        IF ~c.ok THEN c
        ELSE CASE sort = "number" -> visit_number_self(c.t)
               [] sort = "list" -> visit_list_self(c.t)
               [] OTHER -> c
  IN  with(visit_children(n))

ListHirKinds ==
  {"Explicit", "ListMax", "ListMin", "AddList"}
  \cup ListScalarKinds \cup ListReverseKinds

\* Result<HIR, String>: HIR::List goes through visit_list, HIR::Number
\* through visit_number
constant_fold_hir(h) ==
  visit(IF h.t \in ListHirKinds THEN "list" ELSE "number", h)

(***************************************************************************)
(* The optimizer on its own: constant_fold_hir applied to a term, and      *)
(* again to what it returned.  The terms are additive and multiplicative   *)
(* chains of three operands, the division family over constants and pools, *)
(* broadcasts of a list and a number, max/min of a constant list, and the  *)
(* expressions of the sessions.  Constants are chosen so that every        *)
(* quotient of two constants is integral.                                  *)
(***************************************************************************)
MaxFolds == 2

D6(c) == HStandard(HConstant(c), HConstant(6))

AdditiveOperands ==
  {HConstant(0), HConstant(1), HConstant(2),
   D6(0), D6(1), D6(2), HStandard(HConstant(1), HConstant(4)),
   HFudge(HConstant(1)), HCoin(HConstant(1)),
   HKeepHigh(D6(2), HConstant(1)),
   HStandard(HCoin(HConstant(1)), HConstant(6)),
   HNeg(D6(1))}

AdditiveChains ==
  LET ops == {"Add", "Subtract"}
      bin(op, l, r) == Hir(op, 0, <<l, r>>, <<>>, <<>>)
  IN  {bin(p, bin(q, x, y), z) :
         p \in ops, q \in ops, x \in AdditiveOperands,
         y \in AdditiveOperands, z \in AdditiveOperands}
      \cup {bin(p, x, bin(q, y, z)) :
              p \in ops, q \in ops, x \in AdditiveOperands \ {HNeg(D6(1))},
              y \in {D6(1), D6(2), HKeepHigh(D6(2), HConstant(1))},
              z \in {HConstant(1), D6(1), HFudge(HConstant(1))}}

MultiplicativeChains ==
  LET operands == {HConstant(0), HConstant(1), HConstant(2), D6(1), D6(2),
                   HCoin(HConstant(1)), HKeepHigh(D6(2), HConstant(1))}
  IN  {HMultiply(HMultiply(x, y), z) : x, y, z \in operands}
      \cup {HMultiply(x, HMultiply(y, z)) :
              x \in operands, y \in {HConstant(2), D6(1)}, z \in operands}

Dividends ==
  {HConstant(0), HConstant(4), D6(1), D6(2), HFudge(HConstant(1)),
   HKeepHigh(D6(2), HConstant(1)), HAdd(D6(1), HConstant(1)),
   HMultiply(D6(1), HConstant(2)), HNeg(D6(1))}

DivisionFamily ==
  LET ops == {"Divide", "IntDivide", "Modulo"}
      divisors == {HConstant(0), HConstant(1), HConstant(2), D6(1),
                   HSubtract(HConstant(1), HConstant(1))}
      bin(op, l, r) == Hir(op, 0, <<l, r>>, <<>>, <<>>)
  IN  {bin(p, x, c) : p \in ops, x \in Dividends, c \in divisors}
      \cup {bin(p, bin(q, x, c1), c2) :
              p \in ops, q \in ops, x \in Dividends,
              c1 \in {HConstant(1), HConstant(2)},
              c2 \in {HConstant(0), HConstant(1), HConstant(2)}}
      \cup {HAdd(bin(p, x, c), y) :
              p \in ops, x \in {D6(1), HConstant(4)},
              c \in {HConstant(0), HConstant(1)}, y \in {D6(1), HConstant(1)}}

ListOperands ==
  {HExplicit(<<>>), HExplicit(<<HConstant(2), HConstant(4)>>),
   HExplicit(<<HConstant(4), HConstant(0), HConstant(2)>>),
   HExplicit(<<HConstant(1), HConstant(2), HConstant(3)>>),
   HExplicit(<<D6(1), HConstant(2)>>),
   HExplicit(<<HConstant(0), D6(1)>>),
   HExplicit(<<HConstant(2), HAdd(HConstant(1), HConstant(1))>>)}

Broadcasts ==
  {HListBinary(k, l, n) :
     k \in ListScalarKinds \ {"ListDivide"}, l \in ListOperands,
     n \in {HConstant(0), HConstant(1), HConstant(2), D6(1)}}
  \cup {HListBinary("ListDivide", l, n) :
          l \in ListOperands \ {HExplicit(<<HConstant(1), HConstant(2),
                                           HConstant(3)>>)},
          n \in {HConstant(0), HConstant(1), HConstant(2), D6(1)}}
  \cup {HListBinary(k, n, l) :
          k \in ListReverseKinds \ {"ListDivideReverse"}, l \in ListOperands,
          n \in {HConstant(0), HConstant(4), D6(1)}}
  \cup {HListBinary("ListDivideReverse", n, l) :
          l \in ListOperands \ {HExplicit(<<HConstant(1), HConstant(2),
                                           HConstant(3)>>)},
          n \in {HConstant(0), HConstant(4), D6(1)}}

ListValues == {1, 2, 3}

Selections ==
  LET lists == {<<>>} \cup {<<HConstant(x)>> : x \in ListValues}
               \cup {<<HConstant(x), HConstant(y)>> : x, y \in ListValues}
               \cup {<<HConstant(x), HConstant(y), HConstant(z)>> :
                       x, y, z \in ListValues}
               \cup {<<D6(1), HConstant(2)>>}
      counts == {HConstant(0 - 1), HConstant(0), HConstant(1), HConstant(2),
                 HConstant(3), HConstant(4), D6(1)}
  IN  {HListMax(HExplicit(l), k) : l \in lists, k \in counts}
      \cup {HListMin(HExplicit(l), k) : l \in lists, k \in counts}

OptimizerInputs ==
  AdditiveChains \cup MultiplicativeChains \cup DivisionFamily
  \cup Broadcasts \cup Selections \cup Expressions \cup ArithmeticExpressions

OptimizerInit ==
  /\ hir \in OptimizerInputs
  /\ graph = NoGraph
  /\ roller = DiceRollerWithoutAnimation(NoGraph, 0, 0)
  /\ budget = [rounds |-> 0, dice |-> 0]
  /\ counter = 0
  /\ drawn = 0
  /\ cycles = 0
  /\ last = NoCall
  /\ calls = 0
  /\ batch = <<>>
  /\ emitted = <<>>

\* constant_fold_hir on the term, or on the term the fold before returned
ConstantFold ==
  /\ calls < MaxFolds
  /\ last.ret = "Ok"
  /\ LET with(r) ==
           last' = Call("constant_fold_hir", IF r.ok THEN "Ok" ELSE "Err", r.e,
                        [k |-> IF r.ok THEN "Some" ELSE "None", v |-> r.t],
                        calls + 1)
     IN  with(constant_fold_hir(IF calls = 0 THEN hir ELSE last.val.v))
  /\ calls' = calls + 1
  /\ UNCHANGED <<graph, roller, counter, budget, drawn, cycles, batch,
                 emitted, hir>>

OptimizerNext == ConstantFold

OptimizerSpec == OptimizerInit /\ [][OptimizerNext]_vars

(***************************************************************************)
(* C22  A constant zero divisor is rejected at fold time                   *)
(***************************************************************************)
\* the term is x / 0, x // 0 or x % 0 (x a number or a list) with the
\* constant zero written as its right operand
ConstantZeroDivisor(h) ==
  /\ h.t \in {"Divide", "IntDivide", "Modulo",
              "ListDivide", "ListIntDivide", "ListModulo"}
  /\ h.kids[2] = HConstant(0)

\* C22: folding a term whose right operand is the constant zero of a /, //
\* or % returns an error, whatever the left operand is.
C22_ConstantZeroRejected ==
  (calls = 1 /\ ConstantZeroDivisor(hir)) => last.ret = "Err"

(***************************************************************************)
(* C23  Folding is idempotent                                              *)
(***************************************************************************)
\* C23: a term that constant folding returned is folded to itself: folding
\* it again succeeds and returns a structurally equal term.
C23_FoldIdempotent ==
  (last.op = "constant_fold_hir" /\ last.ret = "Ok") =>
    constant_fold_hir(last.val.v) = Visited(last.val.v)

\* the second fold of a term that the first fold rewrote: an additive chain
\* whose dice terms were merged and reordered
C23_Witness ==
  /\ calls = 2
  /\ last.ret = "Ok"
  /\ last.val.v # hir
  /\ hir.t \in {"Add", "Subtract"}
  /\ last.val.v.t \in {"Add", "Subtract"}

(***************************************************************************)
(* C24  Which dice terms of an additive chain are merged                   *)
(***************************************************************************)
\* the signed terms of an additive chain, constants left out
TermsOf(h) == flatten_add_sub(h, 1, [terms |-> <<>>, acc |-> 0]).terms

\* a bare base pool (no modifier layer) with constant count and sides
BarePool(n) ==
  /\ n.t \in {"Standard", "Fudge", "Coin"}
  /\ \A j \in DOMAIN n.kids : is_constant(n.kids[j])

\* kind, side count and sign of a bare pool term
MergeKey(t) ==
  <<t.node.t, IF t.node.t = "Standard" THEN t.node.kids[2].v ELSE 0, t.sign>>

BareTerms(ts) == {j \in DOMAIN ts : BarePool(ts[j].node)}
CountSum(ts, key) ==
  SumSeq([j \in DOMAIN ts |->
            IF j \in BareTerms(ts) /\ MergeKey(ts[j]) = key
            THEN ts[j].node.kids[1].v ELSE 0])
Occurrences(ts, t) == Cardinality({j \in DOMAIN ts : ts[j] = t})

\* C24: after a fold of an additive chain, the bare constant pools of one
\* kind, side count and sign have become one pool whose count is the sum of
\* their counts (terms of different kind, sides or sign stay apart, so
\* 1d6 - 1d6 keeps both), and every other term (modifier-wrapped or with a
\* non-constant operand) is in the result as often as it was in the chain.
C24_MergeRule ==
  (calls = 1 /\ last.ret = "Ok" /\ hir \in AdditiveChains) =>
    LET ins == TermsOf(hir)
        outs == TermsOf(last.val.v)
        keys == {MergeKey(ins[j]) : j \in BareTerms(ins)}
    IN  /\ \A key \in keys :
             LET same == {j \in BareTerms(outs) : MergeKey(outs[j]) = key}
             IN  IF CountSum(ins, key) = 0 THEN same = {}
                 ELSE /\ Cardinality(same) = 1
                      /\ CountSum(outs, key) = CountSum(ins, key)
        /\ \A j \in BareTerms(outs) : MergeKey(outs[j]) \in keys
        /\ \A j \in DOMAIN ins \ BareTerms(ins) :
             Occurrences(outs, ins[j]) = Occurrences(ins, ins[j])
        /\ \A j \in DOMAIN outs \ BareTerms(outs) :
             Occurrences(ins, outs[j]) = Occurrences(outs, outs[j])

\* 1d6 + 2d6kh1 + 2d6 (in some order and grouping) folded: the two bare
\* pools are one 3d6 and the keep-high pool is still there
C24_Witness ==
  /\ calls = 1
  /\ last.ret = "Ok"
  /\ hir \in AdditiveChains
  /\ LET ins == TermsOf(hir)
         outs == TermsOf(last.val.v)
     IN  /\ \E i, j \in DOMAIN ins :
               /\ i # j
               /\ ins[i] = Term(D6(1), 1)
               /\ ins[j] = Term(D6(2), 1)
         /\ \E j \in DOMAIN ins :
               ins[j] = Term(HKeepHigh(D6(2), HConstant(1)), 1)
         /\ outs = <<Term(D6(3), 1), Term(HKeepHigh(D6(2), HConstant(1)), 1)>>

(***************************************************************************)
(* C25  Division by the constant 1                                         *)
(***************************************************************************)
\* C25: the fold of x / 1, x not a constant, is the fold of x.
C25_DivideByOneRemoved ==
  (/\ calls = 1
   /\ hir.t = "Divide"
   /\ hir.kids[2] = HConstant(1)
   /\ ~is_constant(hir.kids[1])) =>
    /\ last.ret = "Ok"
    /\ Visited(last.val.v) = constant_fold_hir(hir.kids[1])

(***************************************************************************)
(* grammar.rs and lower.rs: a binary expression between two operands that  *)
(* are already lowered.  Result<HIR, String> is Visited(h) or              *)
(* VisitError(e).                                                          *)
(***************************************************************************)
\* parse_bin_op_add_sub and parse_bin_op_mul_div: operator token to BinOp
parse_bin_op(token) ==
  CASE token = "+" -> "Add"
    [] token = "-" -> "Sub"
    [] token = "//" -> "Idiv"
    [] token = "/" -> "Div"
    [] token = "**" -> "ListMul"
    [] token = "*" -> "Mul"
    [] token = "%" -> "Mod"

Binary(lhs, token, rhs) == [t |-> "Binary", lhs |-> lhs, op |-> token, rhs |-> rhs]

is_list(h) == h.t \in ListHirKinds

\* combined.extend(list_val) times_val times
RECURSIVE repeated(_, _)
repeated(list_val, times_val) ==
  IF times_val = 0 THEN <<>>
  ELSE repeated(list_val, times_val - 1) \o list_val

\* Variant of list_multiplication that broadcasts the number over the list.
list_multiplication_broadcast(list, times) ==
  Visited(HListBinary("ListMultiply", list, times))

\* the ListMul arm of lower_binary: the list, then the count, go through
\* constant_fold_hir
list_multiplication(list, times) ==
  LET with(folded) ==
        LET l == folded[1]
            n == folded[2]
        IN  IF ~l.ok THEN l
            ELSE IF ~n.ok THEN n
            ELSE IF ~is_explicit(l.t) \/ ~is_constant(n.t)
            THEN VisitError("List multiplication can only be applied to explicit list and constant number")
            ELSE IF AsI32(n.t.v) > 0
            THEN Visited(HExplicit(repeated(l.t.kids, as_usize(n.t.v))))
            ELSE VisitError("List multiplication times must be positive")
  IN  with([j \in 1..2 |-> constant_fold_hir(<<list, times>>[j])])

lower_binary(lhs_hir, op, rhs_hir) ==
  CASE ~is_list(lhs_hir) /\ ~is_list(rhs_hir) /\ op # "ListMul" ->
         Visited(Hir(CASE op = "Add" -> "Add" [] op = "Sub" -> "Subtract"
                       [] op = "Mul" -> "Multiply" [] op = "Div" -> "Divide"
                       [] op = "Mod" -> "Modulo" [] op = "Idiv" -> "IntDivide",
                     0, <<lhs_hir, rhs_hir>>, <<>>, <<>>))
    [] is_list(lhs_hir) /\ is_list(rhs_hir) /\ op = "Add" ->
         Visited(HListBinary("AddList", lhs_hir, rhs_hir))
    [] is_list(lhs_hir) # is_list(rhs_hir) /\ op = "ListMul" ->
         list_multiplication(IF is_list(lhs_hir) THEN lhs_hir ELSE rhs_hir,
                             IF is_list(lhs_hir) THEN rhs_hir ELSE lhs_hir)
    [] is_list(lhs_hir) /\ ~is_list(rhs_hir) /\ op # "ListMul" ->
         Visited(HListBinary(
                   CASE op = "Add" -> "ListAdd" [] op = "Mul" -> "ListMultiply"
                     [] op = "Sub" -> "ListSubtract" [] op = "Div" -> "ListDivide"
                     [] op = "Idiv" -> "ListIntDivide" [] op = "Mod" -> "ListModulo",
                   lhs_hir, rhs_hir))
    [] ~is_list(lhs_hir) /\ is_list(rhs_hir) /\ op \in {"Add", "Mul"} ->
         Visited(HListBinary(IF op = "Add" THEN "ListAdd" ELSE "ListMultiply",
                             rhs_hir, lhs_hir))
    [] ~is_list(lhs_hir) /\ is_list(rhs_hir)
       /\ op \in {"Sub", "Div", "Idiv", "Mod"} ->
         Visited(HListBinary(
                   CASE op = "Sub" -> "ListSubtractReverse"
                     [] op = "Div" -> "ListDivideReverse"
                     [] op = "Idiv" -> "ListIntDivideReverse"
                     [] op = "Mod" -> "ListModuloReverse",
                   lhs_hir, rhs_hir))
    [] op = "ListMul" ->
         VisitError("List multiplication is only supported between a list and a number")
    [] OTHER -> VisitError("Only addition is supported between two lists")

Function(name, args) == [t |-> "Function", name |-> name, args |-> args]

\* the Max and Min arms of lower_function_call
lower_function_call(function_name, args_hir) ==
  IF Len(args_hir) = 2 /\ is_list(args_hir[1]) /\ ~is_list(args_hir[2])
  THEN Visited(IF function_name = "max"
               THEN HListMax(args_hir[1], args_hir[2])
               ELSE HListMin(args_hir[1], args_hir[2]))
  ELSE IF Len(args_hir) = 1 /\ is_list(args_hir[1])
  THEN Visited(IF function_name = "max" THEN max_number(args_hir[1])
               ELSE min_number(args_hir[1]))
  ELSE IF \A j \in DOMAIN args_hir : ~is_list(args_hir[j])
  THEN Visited(IF function_name = "max" THEN max_number(HExplicit(args_hir))
               ELSE min_number(HExplicit(args_hir)))
  ELSE VisitError("All arguments must be numbers to form an explicit list")

\* lower_expr on an expression whose operands are lowered
lower_expr(ast) ==
  IF ast.t = "Binary"
  THEN lower_binary(ast.lhs, parse_bin_op(ast.op), ast.rhs)
  ELSE lower_function_call(ast.name, ast.args)

(***************************************************************************)
(* PipelineSpec: roll_without_animation on a binary expression between a   *)
(* list and a number: lower, fold, compile, then the loop of evaluation    *)
(* and generated responses.  hir keeps the expression as written; last.val *)
(* carries the term from one stage to the next.  Quotients are integral    *)
(* for the operands chosen.                                                *)
(***************************************************************************)
ListLiteral(values) == HExplicit([j \in DOMAIN values |-> HConstant(values[j])])

PipelineInputs ==
  LET both(l, token, n) == {Binary(l, token, n), Binary(n, token, l)}
      dice == {HCoin(HConstant(1)), HFudge(HConstant(1))}
  IN  UNION {both(ListLiteral(l), token, n) :
               l \in {<<1, 2, 3>>, <<2, 4>>, <<>>},
               token \in {"+", "-", "*", "**", "//", "%"},
               n \in {HConstant(0), HConstant(2)} \cup dice}
      \cup {Binary(ListLiteral(l), "/", n) :
              l \in {<<2, 4>>, <<4, 0>>, <<>>},
              n \in {HConstant(0), HConstant(1), HConstant(2)} \cup dice}
      \cup {Binary(n, "/", ListLiteral(l)) :
              l \in {<<1, 2>>, <<2, 0>>, <<>>},
              n \in {HConstant(0), HConstant(4)}}
      \cup {Binary(n, "/", ListLiteral(l)) :
              l \in {<<1, 1>>, <<1, 0>>, <<>>}, n \in dice}
      \cup {Binary(ListLiteral(<<1, 2>>), "+", ListLiteral(<<3>>)),
            Binary(ListLiteral(<<1, 2>>), "-", ListLiteral(<<3>>)),
            Binary(HConstant(2), "**", HConstant(3)),
            Binary(HListBinary("ListAdd", ListLiteral(<<1>>), HCoin(HConstant(1))),
                   "**", HConstant(2))}
      \cup {Function(name, <<ListLiteral(l), k>>) :
              name \in {"max", "min"},
              l \in {<<>>} \cup {<<x>> : x \in ListValues}
                    \cup {<<x, y>> : x, y \in ListValues}
                    \cup {<<x, y, z>> : x, y, z \in ListValues},
              k \in {HConstant(0 - 1), HConstant(0), HConstant(1),
                     HConstant(2), HConstant(3), HConstant(4),
                     HCoin(HConstant(1)), HAdd(HCoin(HConstant(1)), HConstant(1)),
                     HFudge(HConstant(1))}}
      \cup {Function(name, args) :
              name \in {"max", "min"},
              args \in {<<>>, <<ListLiteral(<<>>)>>, <<ListLiteral(<<1, 3, 2>>)>>,
                        <<HConstant(2), HConstant(1)>>,
                        <<HCoin(HConstant(1)), HConstant(0)>>,
                        <<HExplicit(<<HCoin(HConstant(1)), HConstant(0)>>)>>,
                        <<HListMax(HExplicit(<<HCoin(HConstant(1))>>),
                                   HConstant(0))>>,
                        <<HListBinary("ListAdd", ListLiteral(<<>>),
                                      HCoin(HConstant(1)))>>,
                        <<ListLiteral(<<1>>), ListLiteral(<<2>>)>>}}

PipelineInit ==
  /\ hir \in PipelineInputs
  /\ graph = NoGraph
  /\ roller = DiceRollerWithoutAnimation(NoGraph, 0, 0)
  /\ budget = [rounds |-> 0, dice |-> 0]
  /\ counter = 0
  /\ drawn = 0
  /\ cycles = 0
  /\ last = NoCall
  /\ calls = 0
  /\ batch = <<>>
  /\ emitted = <<>>

\* the call of a stage that hands a term on, or fails
Stage(op, r) ==
  Call(op, IF r.ok THEN "Ok" ELSE "Err", r.e,
       [k |-> IF r.ok THEN "Some" ELSE "None", v |-> r.t], 0)

Lower ==
  /\ last.op = "new"
  /\ LET with(r) == last' = Stage("lower_expr", r)
     IN  with(lower_expr(hir))
  /\ UNCHANGED <<graph, roller, counter, budget, drawn, cycles, calls, batch,
                 emitted, hir>>

Fold ==
  /\ last.op = "lower_expr"
  /\ last.ret = "Ok"
  /\ LET with(r) == last' = Stage("constant_fold_hir", r)
     IN  with(constant_fold_hir(last.val.v))
  /\ UNCHANGED <<graph, roller, counter, budget, drawn, cycles, calls, batch,
                 emitted, hir>>

\* compile_hir_to_eval_graph and DiceRollerWithoutAnimation::new
NewSession ==
  /\ last.op = "constant_fold_hir"
  /\ last.ret = "Ok"
  /\ LET with(g) ==
           /\ graph' = g
           /\ roller' = DiceRollerWithoutAnimation(g, MaxRounds, MaxDice)
     IN  with(compile_hir_to_eval_graph(last.val.v))
  /\ budget' = [rounds |-> MaxRounds, dice |-> MaxDice]
  /\ last' = Call("compile_hir_to_eval_graph", "Ok", "-", [k |-> "None"], 0)
  /\ UNCHANGED <<counter, drawn, cycles, calls, batch, emitted, hir>>

PipelineNext ==
  \/ Lower
  \/ Fold
  \/ NewSession
  \/ (graph # NoGraph /\ RollEvaluation)
  \/ (graph # NoGraph /\ RollSetResponses)

PipelineSpec == PipelineInit /\ [][PipelineNext]_vars

(***************************************************************************)
(* C26  Arithmetic between a list and a number is element-wise             *)
(***************************************************************************)
\* the expression is one of + - * / // % between a list literal and a number
ListAndNumber ==
  /\ hir.t = "Binary"
  /\ hir.op \in {"+", "-", "*", "/", "//", "%"}
  /\ is_list(hir.lhs) # is_list(hir.rhs)
  /\ is_explicit(IF is_list(hir.lhs) THEN hir.lhs ELSE hir.rhs)

WrittenList == IF is_list(hir.lhs) THEN hir.lhs ELSE hir.rhs
WrittenNumber == IF is_list(hir.lhs) THEN hir.rhs ELSE hir.lhs

\* what the number operand came to: the constant, or the total of the one
\* pool of the graph
NumberCameTo ==
  IF is_constant(WrittenNumber) THEN WrittenNumber.v
  ELSE LET i == CHOOSE i \in DOMAIN graph.nodes :
                  graph.nodes[i].kind \in BaseKinds
       IN  memory[i].v.pool.total

\* a op b for the written operator
Arith(token, a, b) ==
  CASE token = "+" -> a + b
    [] token = "-" -> a - b
    [] token = "*" -> a * b
    [] token = "/" -> Quotient(a, b)
    [] token = "//" -> FloorDiv(a, b)
    [] token = "%" -> Remainder(a, b)

\* C26: the result of list op number has, at every index, element op number,
\* and of number op list, number op element: the length and the order of
\* the list are kept, and for + and * the two orders give the same list
\* (no divisor of a finished / // % is zero).
C26_Elementwise ==
  (ListAndNumber /\ roller.state.k = "Done") =>
    /\ hir.op \in {"/", "//", "%"} =>
         \A j \in DOMAIN WrittenList.kids :
           (IF is_list(hir.lhs) THEN NumberCameTo
            ELSE WrittenList.kids[j].v) # 0
    /\ roller.state.v =
      [t |-> "Computed",
       v |-> List([j \in DOMAIN WrittenList.kids |->
                     IF is_list(hir.lhs)
                     THEN Arith(hir.op, WrittenList.kids[j].v, NumberCameTo)
                     ELSE Arith(hir.op, NumberCameTo, WrittenList.kids[j].v)])]

\* 1dc - [1,2,3] with the coin showing 1: the session is Done with [0,-1,-2]
C26_Witness ==
  /\ hir = Binary(HCoin(HConstant(1)), "-", ListLiteral(<<1, 2, 3>>))
  /\ roller.state.k = "Done"
  /\ roller.state.v = [t |-> "Computed", v |-> List(<<0, 0 - 1, 0 - 2>>)]

(***************************************************************************)
(* C27  Repeating a list                                                   *)
(***************************************************************************)
\* the expression joins a list literal and a positive constant with token
ListAndCount(token) ==
  /\ hir.t = "Binary"
  /\ hir.op = token
  /\ is_list(hir.lhs) # is_list(hir.rhs)
  /\ is_explicit(WrittenList)
  /\ is_constant(WrittenNumber)
  /\ WrittenNumber.v > 0

\* the values of the written list, n times over
RepeatedList(n) ==
  LET len == Len(WrittenList.kids)
  IN  [j \in 1..(n * len) |-> WrittenList.kids[((j - 1) % len) + 1].v]

\* `list * n` with a positive constant n evaluates to the list repeated n
\* times
C27_StarRepeats ==
  (ListAndCount("*") /\ roller.state.k = "Done") =>
    roller.state.v = [t |-> "Computed", v |-> List(RepeatedList(WrittenNumber.v))]

\* C27: `list ** n` (or `n ** list`) with a positive constant n evaluates to
\* the list repeated n times, and `list * n` to the list with every element
\* multiplied by n.
C27_ListMulRepeats ==
  /\ (ListAndCount("**") /\ last.op = "lower_expr") =>
       /\ last.ret = "Ok"
       /\ last.val.v = ListLiteral(RepeatedList(WrittenNumber.v))
  /\ (ListAndCount("**") /\ roller.state.k = "Done") =>
       roller.state.v =
         [t |-> "Computed", v |-> List(RepeatedList(WrittenNumber.v))]
  /\ (ListAndCount("*") /\ roller.state.k = "Done") =>
       roller.state.v =
         [t |-> "Computed",
          v |-> List([j \in DOMAIN WrittenList.kids |->
                        WrittenList.kids[j].v * WrittenNumber.v])]

\* [1,2,3] ** 2 has evaluated to [1,2,3,1,2,3]
C27_Witness ==
  /\ hir = Binary(ListLiteral(<<1, 2, 3>>), "**", HConstant(2))
  /\ roller.state.k = "Done"
  /\ roller.state.v = [t |-> "Computed", v |-> List(<<1, 2, 3, 1, 2, 3>>)]

(***************************************************************************)
(* C28  max(list, k) and min(list, k) keep k elements in their order       *)
(***************************************************************************)
\* the expression is max(list, k) or min(list, k) of a list literal
ClampToK ==
  /\ hir.t = "Function"
  /\ hir.name \in {"max", "min"}
  /\ Len(hir.args) = 2
  /\ is_constant_list(hir.args[1])
  /\ ~is_list(hir.args[2])

ClampValues == [j \in DOMAIN hir.args[1].kids |-> hir.args[1].kids[j].v]

\* what k came to: the constant, or the value of the count operand of the
\* ListMax / ListMin root
ClampCount ==
  IF is_constant(hir.args[2]) THEN hir.args[2].v
  ELSE NumberIn(memory[graph.nodes[graph.root].b])

\* the elements of values at the indices in S, in their order
RECURSIVE Pick(_, _, _)
Pick(values, S, j) ==
  IF j > Len(values) THEN <<>>
  ELSE (IF j \in S THEN <<values[j]>> ELSE <<>>) \o Pick(values, S, j + 1)

\* S holds the k best of values: nothing left out is better than something
\* kept, and of two equal values the earlier index is kept first
BestK(values, S, k, largest) ==
  /\ Cardinality(S) = (IF k <= 0 THEN 0
                       ELSE IF k >= Len(values) THEN Len(values) ELSE k)
  /\ \A i \in S, j \in DOMAIN values \ S :
       \/ (IF largest THEN values[i] > values[j] ELSE values[i] < values[j])
       \/ (values[i] = values[j] /\ i < j)

\* C28: the list a finished max(list, k) / min(list, k) returns is the
\* subsequence of the list, in the original order, at the min(k, len)
\* indices of its largest / smallest elements, the earlier index winning a
\* tie; with k >= len it is the list and with k <= 0 it is empty.
C28_ClampKeepsOrder ==
  (ClampToK /\ roller.state.k = "Done") =>
    LET result == roller.state.v.v.l
    IN  /\ \E S \in SUBSET DOMAIN ClampValues :
             /\ BestK(ClampValues, S, ClampCount, hir.name = "max")
             /\ result = Pick(ClampValues, S, 1)
        /\ ClampCount >= Len(ClampValues) => result = ClampValues
        /\ ClampCount <= 0 => result = <<>>

\* max([2,3,2], 1dc + 1) with the coin showing 1: [2,3], the earlier 2
C28_Witness ==
  /\ hir = Function("max", <<ListLiteral(<<2, 3, 2>>),
                             HAdd(HCoin(HConstant(1)), HConstant(1))>>)
  /\ roller.state.k = "Done"
  /\ ClampCount = 2
  /\ roller.state.v.v.l = <<2, 3>>

(***************************************************************************)
(* runtime.rs: DiceRollerWithDiceBox.  The state WaitingForResponses has   *)
(* no payload: the outstanding requests are read from the context.  The    *)
(* id_map is a function from RollId to DiceBoxId.  A DiceBoxResponse       *)
(* carries the 0-based idx of the request it answers.                      *)
(***************************************************************************)
DiceBoxWaitingForResponses == [k |-> "WaitingForResponses"]

DiceBoxRequest(idx, face, count) ==
  [idx |-> idx, face |-> face, count |-> count]
DiceBoxId(group_id, roll_id) == [group_id |-> group_id, roll_id |-> roll_id]
DiceBoxResponse(idx, results, values) ==
  [idx |-> idx, results |-> results, values |-> values]

\* DiceRollerWithDiceBox::new, after parse / lower / fold / compile
DiceRollerWithDiceBox(g, recursion_limit, dice_count_limit) ==
  [context |-> new(g.nodes), recursion_limit |-> recursion_limit,
   dice_count_limit |-> dice_count_limit, state |-> StWaitingForEvaluation,
   id_map |-> <<>>, roll_id_counter |-> 0]

\* DiceRollerWithDiceBox::evaluation; [self, ret, res]
dice_box_evaluation(g, self) ==
  IF self.state.k # "WaitingForEvaluation"
  THEN [self |-> self, ret |-> "Err", res |-> "-"]
  ELSE LET not_ready(s0) ==
             LET count == dice_count(s0.context.requests)
                 s1 == [s0 EXCEPT !.recursion_limit = @ - 1]
             IN  IF s0.recursion_limit <= 1
                 THEN [s0 EXCEPT !.state = StError("Recursion limit exceeded")]
                 ELSE IF s1.dice_count_limit < count
                 THEN [s1 EXCEPT
                         !.state = StError("Dice count limit exceeded")]
                 ELSE [s1 EXCEPT !.dice_count_limit = @ - count,
                                 !.state = DiceBoxWaitingForResponses]
           arms(r, s1) ==
             [self |->
                CASE r.k = "Some" ->
                       [s1 EXCEPT !.state =
                          StDone(render_result(g, r.ctx.memory))]
                  [] r.k = "None" -> not_ready(s1)
                  [] r.k = "Err" -> [s1 EXCEPT !.state = StError(r.e)],
              ret |-> "Ok", res |-> r.k]
           with(r) == arms(r, [self EXCEPT !.context = r.ctx])
       IN  with(eval_node(g.nodes, self.context, g.root))

\* the faces get_requests hands to the external roller
is_dice_box_face(face) ==
  face.k = "Number" /\ face.n \in {4, 6, 8, 10, 12, 20, 100}

\* Variant of the filter_map of get_requests that numbers the listed
\* requests by their position in the list it returns.
RECURSIVE filter_map_requests_renumbered(_, _)
filter_map_requests_renumbered(reqs, i) ==
  IF i > Len(reqs) THEN <<>>
  ELSE (IF is_dice_box_face(reqs[i].face)
        THEN <<DiceBoxRequest(
                 Cardinality({j \in 1..(i - 1) :
                                is_dice_box_face(reqs[j].face)}),
                 reqs[i].face.n, reqs[i].count)>>
        ELSE <<>>)
       \o filter_map_requests_renumbered(reqs, i + 1)

\* get_requests: the enumerate().filter_map() over the requests, from the
\* i-th on
RECURSIVE filter_map_requests(_, _)
filter_map_requests(reqs, i) ==
  IF i > Len(reqs) THEN <<>>
  ELSE (IF is_dice_box_face(reqs[i].face)
        THEN <<DiceBoxRequest(i - 1, reqs[i].face.n, reqs[i].count)>>
        ELSE <<>>)
       \o filter_map_requests(reqs, i + 1)

\* DiceRollerWithDiceBox::get_requests; [k, v]
get_requests(self) ==
  IF self.state.k = "WaitingForResponses"
  THEN [k |-> "Ok", v |-> filter_map_requests(self.context.requests, 1)]
  ELSE [k |-> "Err", v |-> <<>>]

\* set_responses, the first loop: the caller's responses are written to
\* their slots, every result under a fresh RollId that id_map maps to the
\* DiceBoxId; [self, ok, slots], self as the loop leaves it
RECURSIVE fill_from_caller(_, _, _, _)
fill_from_caller(self, slots, responses, j) ==
  IF j > Len(responses) THEN [self |-> self, ok |-> TRUE, slots |-> slots]
  ELSE
    LET resp == responses[j]
        first == self.roll_id_counter
        n == Len(resp.results)
        results == [i \in 1..n |-> <<AsI32(resp.values[i]), first + i - 1>>]
        inserted ==
          [id \in DOMAIN self.id_map \cup first..(first + n - 1) |->
             IF id >= first /\ id < first + n
             THEN DiceBoxId(resp.results[id - first + 1].group_id,
                            resp.results[id - first + 1].roll_id)
             ELSE self.id_map[id]]
    IN  IF resp.idx >= Len(slots)
        THEN [self |-> self, ok |-> FALSE, slots |-> slots]
        ELSE IF Len(resp.values) # Len(resp.results)
        THEN [self |-> self, ok |-> FALSE, slots |-> slots]
        ELSE fill_from_caller(
               [self EXCEPT !.roll_id_counter = first + n,
                            !.id_map = inserted],
               [slots EXCEPT ![resp.idx + 1] = <<results>>],
               responses, j + 1)

\* set_responses, the second loop and the collect: every slot still None is
\* filled by generate_response, the RollId counter running through; the set
\* of [final, roll_id_counter] the random generator allows
RECURSIVE fill_missing(_, _, _, _)
fill_missing(reqs, slots, i, first) ==
  IF i > Len(reqs) THEN {[final |-> <<>>, roll_id_counter |-> first]}
  ELSE IF slots[i] # <<>>
  THEN {[final |-> <<slots[i][1]>> \o rest.final,
          roll_id_counter |-> rest.roll_id_counter] :
          rest \in fill_missing(reqs, slots, i + 1, first)}
  ELSE {[final |-> <<r>> \o rest.final,
          roll_id_counter |-> rest.roll_id_counter] :
          r \in generate_response(reqs[i], first),
          rest \in fill_missing(reqs, slots, i + 1, first + reqs[i].count)}

\* DiceRollerWithDiceBox::set_responses: the set of [self, ret, final] the
\* call can end in; final is what process_runtime_responses was handed
dice_box_set_responses(g, self, responses) ==
  IF self.state.k # "WaitingForResponses"
  THEN {[self |-> self, ret |-> "Err", final |-> <<>>]}
  ELSE
    LET reqs == self.context.requests
        applied(s1, m) ==
          LET with(p) ==
                [self |-> [s1 EXCEPT
                             !.roll_id_counter = m.roll_id_counter,
                             !.context = p.ctx,
                             !.state = IF p.k = "Err" THEN StError(p.e)
                                       ELSE StWaitingForEvaluation],
                 ret |-> "Ok", final |-> m.final]
          IN  with(process_runtime_responses(g.nodes, s1.context, m.final))
        filled(f) ==
          IF ~f.ok THEN {[self |-> f.self, ret |-> "Err", final |-> <<>>]}
          ELSE {applied(f.self, m) :
                  m \in fill_missing(reqs, f.slots, 1,
                                     f.self.roll_id_counter)}
    IN  filled(fill_from_caller(self, [i \in 1..Len(reqs) |-> <<>>],
                                responses, 1))

\* DiceRollerWithDiceBox::remove_requests: the DiceBoxIds of the RollIds of
\* the remove list that id_map knows
RECURSIVE filter_map_ids(_, _)
filter_map_ids(ids, id_map) ==
  IF ids = <<>> THEN <<>>
  ELSE (IF Head(ids) \in DOMAIN id_map THEN <<id_map[Head(ids)]>> ELSE <<>>)
       \o filter_map_ids(Tail(ids), id_map)

remove_requests(self) ==
  filter_map_ids(self.context.remove_requests, self.id_map)

(***************************************************************************)
(* DiceBoxSpec: a DiceRollerWithDiceBox session driven by an arbitrary     *)
(* caller.  roller is the DiceRollerWithDiceBox, batch the responses the   *)
(* last set_responses handed to the engine, last.arg the responses the     *)
(* caller passed.                                                          *)
(***************************************************************************)
DiceBoxRounds == 4
DiceBoxDice == 4

DiceBoxInputs ==
  LET n(v) == HConstant(v)
      d(c, f) == HStandard(n(c), n(f))
  IN  {d(1, 4),
       d(2, 4),
       HAdd(HFudge(n(1)), d(1, 4)),
       HAdd(d(1, 4), HCoin(n(1))),
       HAdd(HMultiply(d(1, 3), n(2)), HMultiply(d(1, 4), n(2))),
       HKeepHigh(d(2, 4), n(1)),
       HReroll(d(1, 4), ModParam("LessEqual", n(2)), <<>>),
       HReroll(HFudge(n(1)), ModParam("Less", n(0)), <<>>),
       HExplode(d(1, 4), <<>>, <<>>)}

DiceBoxInit ==
  /\ hir \in DiceBoxInputs
  /\ graph = compile_hir_to_eval_graph(constant_fold_hir(hir).t)
  /\ \E r \in {2, DiceBoxRounds}, d \in {1, DiceBoxDice} :
       /\ roller = DiceRollerWithDiceBox(graph, r, d)
       /\ budget = [rounds |-> r, dice |-> d]
  /\ counter = 0
  /\ drawn = 0
  /\ cycles = 0
  /\ last = NoCall
  /\ calls = 0
  /\ batch = <<>>
  /\ emitted = <<>>

\* the values an external roller reports for a face
ShownValues(face) ==
  CASE face.k = "Number" -> {1, face.n}
    [] face.k = "Coin" -> {0, 1}
    [] face.k = "Fudge" -> {0 - 1, 1}

\* the responses an external roller can give to the i-th request
Shown(reqs, i) ==
  {DiceBoxResponse(i - 1,
     [j \in 1..reqs[i].count |->
        DiceBoxId(roller.roll_id_counter + i, j - 1)],
     vals) : vals \in SeqsOver(ShownValues(reqs[i].face), reqs[i].count)}

\* a response to some of the requests from the i-th on, in request order
RECURSIVE ShownFrom(_, _)
ShownFrom(reqs, i) ==
  IF i > Len(reqs) THEN {<<>>}
  ELSE ShownFrom(reqs, i + 1)
       \cup {<<a>> \o rest : a \in Shown(reqs, i),
                              rest \in ShownFrom(reqs, i + 1)}

\* what a caller may hand to set_responses: responses to any of the
\* requests, a response with an idx out of range (alone, or after a good
\* one), one with more results than values, one without dice.  A refused
\* call keeps the RollIds it has handed out, so the refused calls that
\* hand out RollIds stop once DiceBoxDice ids are used.
DiceBoxCallerResponses ==
  IF roller.state.k = "WaitingForResponses"
  THEN LET reqs == roller.context.requests
           bad == DiceBoxResponse(Len(reqs), <<>>, <<>>)
       IN  ShownFrom(reqs, 1)
           \cup {<<bad>>,
                 <<DiceBoxResponse(0, <<DiceBoxId(0, 0)>>, <<>>)>>,
                 <<DiceBoxResponse(0, <<>>, <<>>)>>}
           \cup (IF roller.roll_id_counter < DiceBoxDice
                 THEN {<<a, bad>> : a \in Shown(reqs, 1)}
                 ELSE {})
  ELSE {<<>>}

DiceBoxEvaluation ==
  LET with(r) ==
        /\ roller' = r.self
        /\ last' = Call("evaluation", r.ret, r.res, try_get_results(r.self), 0)
  IN  /\ with(dice_box_evaluation(graph, roller))
      /\ UNCHANGED <<graph, counter, budget, drawn, cycles, calls, batch,
                     emitted, hir>>

DiceBoxGetRequests ==
  /\ last' = Call("get_requests", get_requests(roller).k, "-",
                  get_requests(roller), 0)
  /\ UNCHANGED <<graph, roller, counter, budget, drawn, cycles, calls,
                 batch, emitted, hir>>

DiceBoxSetResponses ==
  /\ \E responses \in DiceBoxCallerResponses :
       \E r \in dice_box_set_responses(graph, roller, responses) :
         /\ roller' = r.self
         /\ batch' = r.final
         /\ last' = Call("set_responses", r.ret, "-",
                         try_get_results(r.self), responses)
  /\ UNCHANGED <<graph, counter, budget, drawn, cycles, calls, emitted, hir>>

DiceBoxRemoveRequests ==
  /\ last' = Call("remove_requests", "Ok", "-",
                  [k |-> "Ok", v |-> remove_requests(roller)], 0)
  /\ UNCHANGED <<graph, roller, counter, budget, drawn, cycles, calls,
                 batch, emitted, hir>>

DiceBoxNext ==
  \/ DiceBoxEvaluation
  \/ DiceBoxGetRequests
  \/ DiceBoxSetResponses
  \/ DiceBoxRemoveRequests
  \/ TryGetResults

DiceBoxSpec == DiceBoxInit /\ [][DiceBoxNext]_vars

(***************************************************************************)
(* C29  The dice-box session: what is listed, what is filled in            *)
(***************************************************************************)
\* a numeric face with 4, 6, 8, 10, 12, 20 or 100 sides
Polyhedral(face) ==
  face.k = "Number" /\ face.n \in {4, 6, 8, 10, 12, 20, 100}

\* the list an accepted get_requests returned holds, in request order, one
\* entry for every outstanding request with a polyhedral face and nothing
\* else, each entry with the request's position (from 0), sides and count
ListsPolyhedral ==
  (last.op = "get_requests" /\ roller.state.k = "WaitingForResponses") =>
    LET reqs == roller.context.requests
        listed == last.val.v
    IN  /\ last.ret = "Ok"
        /\ \A i \in 1..Len(reqs) :
             Polyhedral(reqs[i].face) <=>
               \E j \in 1..Len(listed) : listed[j].idx = i - 1
        /\ \A j \in 1..Len(listed) :
             /\ listed[j].idx \in 0..(Len(reqs) - 1)
             /\ listed[j].face = reqs[listed[j].idx + 1].face.n
             /\ listed[j].count = reqs[listed[j].idx + 1].count
             /\ \A k \in 1..(j - 1) : listed[k].idx < listed[j].idx

\* the caller's responses that answer the i-th request
AnswersTo(given, i) == {j \in 1..Len(given) : given[j].idx = i - 1}

\* response is what internal randomness gives for request: count dice, each
\* in the range of the face
Generated(request, response) ==
  /\ Len(response) = request.count
  /\ \A d \in 1..Len(response) : response[d][1] \in face_range(request.face)

\* an accepted set_responses hands the engine one response per outstanding
\* request, in request order: the caller's values where the caller answered,
\* a generated response where it did not
FillsUnanswered ==
  (last'.op = "set_responses" /\ last'.ret = "Ok") =>
    LET reqs == roller.context.requests
        given == last'.arg
    IN  /\ Len(batch') = Len(reqs)
        /\ \A i \in 1..Len(reqs) :
             IF AnswersTo(given, i) = {}
             THEN Generated(reqs[i], batch'[i])
             ELSE \E j \in AnswersTo(given, i) :
                    /\ \A k \in AnswersTo(given, i) : k <= j
                    /\ Len(batch'[i]) = Len(given[j].values)
                    /\ \A d \in 1..Len(batch'[i]) :
                         batch'[i][d][1] = given[j].values[d]

\* C29: get_requests of the dice-box session lists exactly the outstanding
\* requests whose face is numeric with 4, 6, 8, 10, 12, 20 or 100 sides, each
\* with its index in the outstanding batch; on an accepted set_responses
\* every outstanding request the caller did not answer is answered by
\* internal randomness, so that the engine receives exactly one response per
\* outstanding request, in request order.
C29_DiceBoxRequestsAndFallback ==
  []ListsPolyhedral /\ [][FillsUnanswered]_vars

\* 1dF + 1d4: the caller answered the d4 (idx 1) only, the fudge die was
\* rolled internally and the engine took both responses
C29_Witness ==
  /\ hir = HAdd(HFudge(HConstant(1)), HStandard(HConstant(1), HConstant(4)))
  /\ last.op = "set_responses"
  /\ last.ret = "Ok"
  /\ Len(last.arg) = 1
  /\ last.arg[1].idx = 1
  /\ Len(batch) = 2
  /\ batch[1][1][1] \in face_range(FaceFudge)
  /\ batch[2][1][1] = last.arg[1].values[1]
  /\ roller.state.k = "WaitingForEvaluation"

(***************************************************************************)
(* C30  The remove list after a reroll                                     *)
(***************************************************************************)
\* the dice of the pool that node i of the session holds, if it holds one
DiceAt(self, i) ==
  LET slot == self.context.memory[i]
  IN  IF slot.st = "Dynamic" THEN slot.state.pool.details
      ELSE IF slot.st = "Computed" /\ slot.v.t = "DicePool"
      THEN slot.v.pool.details
      ELSE <<>>

RemoveList(self) == self.context.remove_requests

\* this step retires die d of reroll node i: the die becomes rerolled and
\* its replacement joins the pool
Retires(i, d) ==
  /\ graph.nodes[i].kind = "DiceReroll"
  /\ d \in DOMAIN DiceAt(roller, i)
  /\ d \in DOMAIN DiceAt(roller', i)
  /\ ~DiceAt(roller, i)[d].is_rerolled
  /\ DiceAt(roller', i)[d].is_rerolled
  /\ Len(DiceAt(roller', i)) > Len(DiceAt(roller, i))

\* a step that retires a die leaves all its RollIds in the remove list
RetiredAreListed ==
  \A i \in DOMAIN graph.nodes :
    \A d \in DOMAIN DiceAt(roller, i) :
      Retires(i, d) =>
        Range(DiceAt(roller', i)[d].roll_id) \subseteq Range(RemoveList(roller'))

\* this step is a set_responses whose batch the engine applied
AppliesBatch ==
  /\ last'.op = "set_responses"
  /\ last'.ret = "Ok"
  /\ roller.state.k = "WaitingForResponses"
  /\ roller'.state.k = "WaitingForEvaluation"

\* the remove list only grows at its end, except that applying a batch of
\* responses empties it
ListedUntilApplied ==
  /\ AppliesBatch => RemoveList(roller') = <<>>
  /\ ~AppliesBatch =>
       /\ Len(RemoveList(roller')) >= Len(RemoveList(roller))
       /\ SubSeq(RemoveList(roller'), 1, Len(RemoveList(roller)))
            = RemoveList(roller)

\* what remove_requests returned: the DiceBoxId of every RollId of the
\* remove list that the caller supplied, in the order of the list
ListIsReadable ==
  last.op = "remove_requests" =>
    LET known == SelectSeq(RemoveList(roller),
                           LAMBDA id : id \in DOMAIN roller.id_map)
    IN  last.val.v = [j \in 1..Len(known) |-> roller.id_map[known[j]]]

\* C30: whenever a reroll replaces a die, all RollIds of the retired die are
\* in the remove list after that advance; the list keeps them, and
\* remove_requests returns them to the caller, until the next batch of
\* responses is applied, and applying that batch empties the list.
C30_RemoveListUntilNextBatch ==
  /\ [][RetiredAreListed /\ ListedUntilApplied]_vars
  /\ []ListIsReadable

\* 1d4r<=2: the caller's die showed 1 and was rerolled; after the advance
\* that replaced it, remove_requests hands its DiceBoxId back while the
\* session waits for the next batch
C30_Witness ==
  /\ hir = HReroll(HStandard(HConstant(1), HConstant(4)),
                   ModParam("LessEqual", HConstant(2)), <<>>)
  /\ roller.state.k = "WaitingForResponses"
  /\ last.op = "remove_requests"
  /\ Len(last.val.v) = 1
  /\ \E i \in DOMAIN graph.nodes :
       /\ graph.nodes[i].kind = "DiceReroll"
       /\ DiceAt(roller, i)[1].is_rerolled
       /\ DiceAt(roller, i)[1].roll_id = RemoveList(roller)

(***************************************************************************)
(* C31  max and min of an empty list                                       *)
(***************************************************************************)
\* max or min is applied to nothing: no argument, the literal [], or one
\* list that comes out empty at evaluation time
AggregateOfEmpty ==
  /\ hir.t = "Function"
  /\ hir.args \in {<<>>, <<ListLiteral(<<>>)>>,
                   <<HListMax(HExplicit(<<HCoin(HConstant(1))>>), HConstant(0))>>,
                   <<HListBinary("ListAdd", ListLiteral(<<>>),
                                 HCoin(HConstant(1)))>>}

\* C31: max([]), min([]) and max() never produce a value: folding does not
\* return a constant for them and their session is never Done, whether the
\* list is known at fold time or only at evaluation time.
C31_EmptyAggregateIsError ==
  AggregateOfEmpty =>
    /\ ~(last.op = "constant_fold_hir" /\ last.ret = "Ok"
         /\ is_constant(last.val.v))
    /\ roller.state.k # "Done"

\* the half that the engine enforces: a list that is empty only at
\* evaluation time ends the session in Error
RuntimeEmptyIsError ==
  (/\ AggregateOfEmpty
   /\ hir.args # <<>>
   /\ hir.args # <<ListLiteral(<<>>)>>
   /\ graph # NoGraph) => roller.state.k # "Done"

RuntimeEmptyFails ==
  /\ AggregateOfEmpty
  /\ hir.name = "max"
  /\ roller.state = StError("NumMax called on empty list")


(***************************************************************************)
(* PureNodeSpec: eval_node and process_runtime_responses called in any     *)
(* order on graphs whose root is a pure node over pools that become ready  *)
(* at different times.                                                     *)
(***************************************************************************)
PureNodeInputs ==
  LET n(v) == HConstant(v)
      d(c, f) == HStandard(n(c), n(f))
      coin == HCoin(n(1))
  IN  {HAdd(d(1, 2), coin),
       HIntDivide(n(1), coin),
       HExplicit(<<d(1, 2), coin>>),
       HListBinary("ListAdd", ListLiteral(<<1, 2>>), coin),
       HListBinary("ListSubtractReverse", coin, ListLiteral(<<1>>)),
       HListMax(HExplicit(<<d(1, 2), n(1)>>), coin),
       max_number(HExplicit(<<coin, n(0)>>)),
       min_number(HListMin(HExplicit(<<coin>>), n(0))),
       HKeepHigh(d(2, 2), HCoin(coin)),
       HMax(d(2, 2), coin),
       HMin(HStandard(coin, n(2)), n(2))}

PureNodeInit ==
  /\ hir \in PureNodeInputs
  /\ graph = compile_hir_to_eval_graph(hir)
  /\ roller = DiceRollerWithoutAnimation(graph, 0, 0)
  /\ budget = [rounds |-> 0, dice |-> 0]
  /\ counter = 0
  /\ drawn = 0
  /\ cycles = 0
  /\ last = NoCall
  /\ calls = 0
  /\ batch = <<>>
  /\ emitted = <<>>

\* process_runtime_responses on well-formed responses to the requests
PureNodeProcessResponses ==
  /\ calls < MaxCalls
  /\ \E responses \in generate_responses(roller.context.requests, counter) :
       LET with(p) ==
             /\ roller' = [roller EXCEPT !.context = p.ctx]
             /\ last' = Call("process_runtime_responses", p.k, "-",
                             [k |-> "None"], Len(responses))
       IN  with(process_runtime_responses(graph.nodes, roller.context,
                                          responses))
       /\ batch' = responses
       /\ counter' = counter + SumSeq([j \in 1..Len(responses) |->
                                         Len(responses[j])])
  /\ calls' = calls + 1
  /\ UNCHANGED <<graph, budget, drawn, cycles, emitted, hir>>

PureNodeNext == EngineEvalNode \/ PureNodeProcessResponses

PureNodeSpec == PureNodeInit /\ [][PureNodeNext]_vars

(***************************************************************************)
(* C32  A pure node with an operand that is not ready                      *)
(***************************************************************************)
PureKinds ==
  {"ListConstruct", "NumAdd", "NumSubtract", "NumIntDivide", "NumMultiply",
   "NumDivide", "NumModulo", "ListMax", "ListMin", "NumMax", "NumMin",
   "DiceMin", "DiceMax"}
  \cup FilterKinds \cup ListScalarKinds \cup ListReverseKinds

\* the operands of a pure node, in the order in which its arm evaluates them
OperandsOf(n) ==
  CASE n.kind = "ListConstruct" -> n.elems
    [] n.kind \in {"NumMax", "NumMin"} -> <<n.a>>
    [] n.kind \in ListReverseKinds -> <<n.b, n.a>>
    [] OTHER -> <<n.a, n.b>>

\* the context after evaluating the operands one after the other, and whether
\* one of them failed
RECURSIVE OperandsEvaluated(_, _, _)
OperandsEvaluated(g, ctx, ids) ==
  IF ids = <<>> THEN [ctx |-> ctx, failed |-> FALSE]
  ELSE LET with(r) ==
             IF r.k = "Err" THEN [ctx |-> r.ctx, failed |-> TRUE]
             ELSE OperandsEvaluated(g, r.ctx, Tail(ids))
       IN  with(eval_node(g, ctx, Head(ids)))

\* eval_node was called on a Waiting pure node of which an operand is still
\* not Computed once the operands have been evaluated
OperandNotReady(id) ==
  LET n == graph.nodes[id]
  IN  /\ last'.op = "eval_node"
      /\ calls' = calls + 1
      /\ last'.arg = id
      /\ n.kind \in PureKinds
      /\ memory[id] = Waiting
      /\ LET with(after) ==
               /\ ~after.failed
               /\ \E j \in DOMAIN OperandsOf(n) :
                    after.ctx.memory[OperandsOf(n)[j]].st # "Computed"
         IN  with(OperandsEvaluated(graph.nodes, roller.context, OperandsOf(n)))

\* the call returned NotReady and did nothing but evaluate the operands
NoEffectOfItsOwn(id) ==
  LET n == graph.nodes[id]
  IN  /\ last'.res = "None"
      /\ roller'.context.memory[id] = Waiting
      /\ RequestsFor(roller'.context.requests, id) = <<>>
      /\ LET with(after) ==
               /\ roller'.context = after.ctx
               /\ roller'.context.remove_requests = after.ctx.remove_requests
         IN  with(OperandsEvaluated(graph.nodes, roller.context, OperandsOf(n)))

RootNotReady == last.op = "evaluation" /\ last.res = "None"

RequestsToAnswer ==
  RootNotReady =>
    /\ requests # <<>>
    /\ \A j \in DOMAIN requests : requests[j].count >= 1

\* an evaluation that returned NotReady and passed both budget tests takes
\* at least one die from the total-dice budget
BudgetDecreases ==
  (/\ cycles' = cycles + 1
   /\ last'.op = "evaluation"
   /\ last'.res = "None"
   /\ roller'.state.k = "WaitingForResponses")
    => roller'.dice_count_limit < roller.dice_count_limit

\* C33: whenever evaluating the root returns NotReady the request list is
\* not empty and every request asks for at least one die, so every NotReady
\* cycle that passes the budget tests strictly decreases the remaining
\* total-dice budget.
C33_NotReadyAsksForDice == []RequestsToAnswer /\ [][BudgetDecreases]_vars

\* (1dc)d2 with the coin showing 1: the second cycle is NotReady too, asks
\* for one die and leaves one die less in the budget
C33_Witness ==
  /\ graph = GCount
  /\ RootNotReady
  /\ cycles = 2
  /\ roller.state.k = "WaitingForResponses"
  /\ requests = <<RuntimeRequest(4, FaceNumber(2), 1)>>
  /\ roller.dice_count_limit = budget.dice - 2

(***************************************************************************)
(* C34  A Done session has computed every node                             *)
(***************************************************************************)
\* C34: whenever the session is Done, every memory slot of the graph is
\* Computed (none is Waiting or Dynamic) and the request list is empty, so
\* render_result reads a Computed slot at every node.
C34_DoneIsAllComputed ==
  roller.state.k = "Done" =>
    /\ \A i \in DOMAIN graph.nodes : memory[i].st = "Computed"
    /\ requests = <<>>

\* 2d2r1 is Done after a round of rerolls: the reroll node went from Dynamic
\* to Computed
C34_Witness ==
  /\ graph = GReroll
  /\ roller.state.k = "Done"
  /\ cycles >= 2
  /\ memory[graph.root].st = "Computed"
  /\ \E j \in DOMAIN memory[graph.root].v.pool.details :
       memory[graph.root].v.pool.details[j].is_rerolled

(***************************************************************************)
(* C35  A base pool is requested once                                      *)
(***************************************************************************)
BasePoolNodes == {i \in DOMAIN graph.nodes : graph.nodes[i].kind \in BaseKinds}

\* the number of requests that named node i since the session began
TimesRequested(i) == Len(RequestsFor(emitted, i))

\* the pool of node i has been built from a response
Rolled(i) ==
  /\ memory[i].st = "Computed"
  /\ memory[i].v.pool.details # <<>>

\* C35 as stated: at the end of a session every base pool node has been
\* named by exactly one request.
C35_ExactlyOneRequest ==
  roller.state.k = "Done" => \A i \in BasePoolNodes : TimesRequested(i) = 1

\* C35: over a whole session a base pool node is named by at most one
\* request: never twice in one batch and never again once its response was
\* applied.  A pool that holds dice was requested exactly once, and a
\* Waiting pool with no request outstanding has never been requested (a
\* pool whose count or side count comes to zero or less is never requested
\* at all).
C35_RequestedAtMostOnce ==
  \A i \in BasePoolNodes :
    /\ TimesRequested(i) <= 1
    /\ Len(RequestsFor(requests, i)) <= 1
    /\ Rolled(i) => TimesRequested(i) = 1
    /\ (memory[i] = Waiting /\ requests = <<>>) => TimesRequested(i) = 0

\* (1dc)d2 with the coin showing 1, Done after two rounds: each of the two
\* pools was requested once, in different batches
C35_Witness ==
  /\ graph = GCount
  /\ roller.state.k = "Done"
  /\ Rolled(2)
  /\ Rolled(4)
  /\ emitted = <<RuntimeRequest(2, FaceCoin, 1),
                 RuntimeRequest(4, FaceNumber(2), 1)>>

(***************************************************************************)
(* C36  One evaluation reaches every node that can be evaluated            *)
(***************************************************************************)
\* every node that node n reads
ReadBy(n) ==
  CASE n.kind = "Constant" -> {}
    [] n.kind = "ListConstruct" -> {n.elems[j] : j \in DOMAIN n.elems}
    [] n.kind \in {"DiceFudge", "DiceCoin", "NumMax", "NumMin"} -> {n.a}
    [] n.kind \in DynamicKinds ->
         {n.a} \cup {n.mp[j].value : j \in DOMAIN n.mp}
         \cup UNION {{n.limit[j].limit_times[k] :
                        k \in DOMAIN n.limit[j].limit_times}
                     \cup {n.limit[j].limit_counts[k] :
                             k \in DOMAIN n.limit[j].limit_counts} :
                     j \in DOMAIN n.limit}
    [] OTHER -> {n.a, n.b}

\* node i has been evaluated with its operands ready: it has a value, or it
\* is resolving, or its request is in the batch
Evaluated(i) ==
  \/ memory[i].st # "Waiting"
  \/ RequestsFor(requests, i) # <<>>

\* C36: an evaluation that returns NotReady has not stopped at the first
\* operand that was not ready: every node whose own operands are all
\* Computed has been evaluated, so every base pool with known operands has
\* its request in this batch (both pools of a + b, every element of a list).
\* Once the batch has been answered, every base pool requested so far is
\* Computed.
C36_EvaluatesAllReadyNodes ==
  /\ RootNotReady =>
       \A i \in DOMAIN graph.nodes :
         (\A j \in ReadBy(graph.nodes[i]) : memory[j].st = "Computed")
           => Evaluated(i)
  /\ (last.op = "set_responses" /\ roller.state.k = "WaitingForEvaluation") =>
       \A i \in BasePoolNodes :
         TimesRequested(i) >= 1 => memory[i].st = "Computed"

\* the first evaluation of 1d2 + 1dc asks for both pools at once
C36_Witness ==
  /\ graph = GAdd
  /\ RootNotReady
  /\ roller.state.k = "WaitingForResponses"
  /\ requests = <<RuntimeRequest(3, FaceNumber(2), 1),
                  RuntimeRequest(5, FaceCoin, 1)>>
  /\ roller.state.requests = requests

(***************************************************************************)
(* FilterSpec: the loop of roll_without_animation on 3d3 under one or two  *)
(* keep / drop modifiers with constant parameters.                         *)
(***************************************************************************)
FilterInputs ==
  LET pool == HStandard(HConstant(3), HConstant(3))
      ops == {"KeepHigh", "KeepLow", "DropHigh", "DropLow"}
      one == {HFilter(op, pool, HConstant(n)) :
                op \in ops, n \in {0 - 1, 0, 1, 2, 3, 4}}
      two == {HFilter(op2, HFilter(op1, pool, HConstant(n1)), HConstant(n2)) :
                op1 \in ops, op2 \in ops, n1 \in {1, 2}, n2 \in {0 - 1, 1, 2}}
  IN  one \cup two

FilterInit ==
  /\ hir \in FilterInputs
  /\ graph = compile_hir_to_eval_graph(constant_fold_hir(hir).t)
  /\ roller = DiceRollerWithoutAnimation(graph, MaxRounds, MaxDice)
  /\ budget = [rounds |-> MaxRounds, dice |-> MaxDice]
  /\ counter = 0
  /\ drawn = 0
  /\ cycles = 0
  /\ last = NoCall
  /\ calls = 0
  /\ batch = <<>>
  /\ emitted = <<>>

FilterSpec == FilterInit /\ [][DriverNext]_vars

(***************************************************************************)
(* C37  Keep and drop only clear kept flags                                *)
(***************************************************************************)
KeptOf(details) == {j \in DOMAIN details : details[j].is_kept}

\* the parameter as the modifier uses it: `as i32`, negative treated as 0
ParameterOf(i) ==
  LET raw == OperandValue(memory, graph.nodes[i].b)
  IN  IF raw < 0 THEN 0 ELSE raw

Smaller(a, b) == IF a < b THEN a ELSE b

\* filter node i is Computed: what it made of the pool of its source
FilterResult(i) ==
  LET n == graph.nodes[i]
      src == memory[n.a].v.pool.details
      out == memory[i].v.pool.details
      k == Cardinality(KeptOf(src))
      keeps == n.kind \in {"DiceKeepHigh", "DiceKeepLow"}
      highest == n.kind \in {"DiceKeepHigh", "DiceDropLow"}
  IN  /\ Len(out) = Len(src)
      /\ \A j \in DOMAIN src :
           /\ out[j].result = src[j].result
           /\ out[j].is_kept => src[j].is_kept
      /\ Cardinality(KeptOf(out)) =
           IF keeps THEN Smaller(ParameterOf(i), k)
           ELSE IF k - ParameterOf(i) > 0 THEN k - ParameterOf(i) ELSE 0
      /\ \A j \in KeptOf(out) : \A l \in KeptOf(src) \ KeptOf(out) :
           IF highest THEN out[j].result >= src[l].result
           ELSE out[j].result <= src[l].result

\* C37: a keep / drop modifier only clears kept flags: with k dice kept in
\* its source and parameter n (negative treated as 0), keep-high / keep-low
\* leaves min(n, k) dice kept and drop-high / drop-low leaves max(k - n, 0);
\* the survivors are the highest by result for keep-high and drop-low and
\* the lowest for keep-low and drop-high; a die that was dropped stays
\* dropped and no result changes.
C37_FiltersOnlyDrop ==
  \A i \in DOMAIN graph.nodes :
    (graph.nodes[i].kind \in FilterKinds /\ memory[i].st = "Computed")
      => FilterResult(i)

\* 3d3kh2dl1 rolled 1, 3, 2: keep-high 2 drops the 1, drop-low 1 then drops
\* the 2 and the 1 stays dropped
C37_Witness ==
  /\ hir = HFilter("DropLow",
                   HFilter("KeepHigh", HStandard(HConstant(3), HConstant(3)),
                           HConstant(2)),
                   HConstant(1))
  /\ roller.state.k = "Done"
  /\ [j \in 1..3 |-> memory[graph.root].v.pool.details[j].result]
       = <<1, 3, 2>>
  /\ KeptOf(memory[graph.root].v.pool.details) = {2}
  /\ KeptOf(memory[graph.root - 2].v.pool.details) = {2, 3}

(***************************************************************************)
(* C38  An uncapped reroll leaves no die to reroll                         *)
(***************************************************************************)
\* node i is a reroll with neither a round cap nor a count cap
UncappedReroll(i) ==
  LET n == graph.nodes[i]
  IN  /\ n.kind = "DiceReroll"
      /\ \A j \in DOMAIN n.limit :
           n.limit[j].limit_times = <<>> /\ n.limit[j].limit_counts = <<>>

\* C38: when a reroll with no round cap and no count cap is Computed, no
\* kept die of its pool satisfies the comparator of the reroll.
C38_UncappedRerollIsExhaustive ==
  \A i \in DOMAIN graph.nodes :
    (UncappedReroll(i) /\ memory[i].st = "Computed") =>
      LET n == graph.nodes[i]
          details == memory[i].v.pool.details
      IN  \A j \in KeptOf(details) :
            ~get_compare_function(n.mp[1].operator,
                                  computed_number(roller.context,
                                                  n.mp[1].value),
                                  details[j].result)

\* 2d2r1 rolled a 1 that was rerolled: the reroll node is Computed with the
\* first roll dropped and every kept die showing 2
C38_Witness ==
  /\ graph = GReroll
  /\ memory[graph.root].st = "Computed"
  /\ \E j \in DOMAIN memory[graph.root].v.pool.details :
       /\ memory[graph.root].v.pool.details[j].is_rerolled
       /\ memory[graph.root].v.pool.details[j].result = 1
  /\ \A j \in KeptOf(memory[graph.root].v.pool.details) :
       memory[graph.root].v.pool.details[j].result = 2

(***************************************************************************)
(* C39  A refused call leaves the engine alone                             *)
(***************************************************************************)
\* the step is an evaluation or a set_responses call that returned Err
RefusedCall ==
  /\ last'.op \in {"evaluation", "set_responses"}
  /\ last'.ret = "Err"

EngineUntouched ==
  /\ roller'.context.memory = roller.context.memory
  /\ roller'.context.requests = roller.context.requests
  /\ roller'.recursion_limit = roller.recursion_limit
  /\ roller'.dice_count_limit = roller.dice_count_limit

\* C39: a refused session call changes nothing in the engine: after an
\* evaluation called outside WaitingForEvaluation, or a set_responses refused
\* for the state or for the number of responses, the node memory, the request
\* list and the two remaining budgets are what they were before the call.
C39_RefusedCallChangesNothing == [][RefusedCall => EngineUntouched]_vars

\* an evaluation refused while the session waits for the answer to its
\* second batch: one pool Computed, a request outstanding, both budgets used
C39_Witness ==
  /\ last.op = "evaluation"
  /\ last.ret = "Err"
  /\ roller.state.k = "WaitingForResponses"
  /\ cycles = 2
  /\ requests # <<>>
  /\ \E i \in DOMAIN memory :
       memory[i].st = "Computed" /\ memory[i].v.t = "DicePool"
  /\ roller.recursion_limit < budget.rounds
  /\ roller.dice_count_limit < budget.dice

====
